---- MODULE Spec2Model ----
(***************************************************************************)
(* A model of the BUEM 5R1C building-energy simulation: configuration      *)
(* validation (validate_cfg), envelope parsing (_initEnvelop), the 5R1C    *)
(* parameters and solar gains (_init5R1C), the constraint assembler        *)
(* (_addConstraints), the two solver paths of sim_model, and run_model.    *)
(*                                                                         *)
(* Numbers.  The program computes in binary floating point; the model      *)
(* computes in exact rationals <<n, d>> (d > 0, lowest terms).  NaN, which *)
(* the sparse solver writes into its result for a singular matrix, is the  *)
(* pair <<0, 0>>; comparisons with it are false, as in IEEE arithmetic.    *)
(*                                                                         *)
(* Units.  The entries of ModelBUEM.CONST are small multiples of a model   *)
(* unit instead of the SI magnitudes of the source (3.45/1000, 9.1/1000,   *)
(* ...), so that the exact elimination stays inside TLC's integers.  The   *)
(* formulas that use them are those of the source; only magnitudes differ. *)
(***************************************************************************)
EXTENDS Integers, Sequences, FiniteSets, TLC

\* ------------------------------------------------------------------------
\* Exact rational arithmetic (the program's float arithmetic)
\* ------------------------------------------------------------------------
Abs(a) == IF a < 0 THEN -a ELSE a

RECURSIVE GCD(_, _)
GCD(a, b) == IF b = 0 THEN a ELSE GCD(b, a % b)

Frac(n, d) ==
  LET g == GCD(Abs(n), Abs(d))
      s == IF d < 0 THEN -1 ELSE 1
  IN  <<(s * n) \div g, (s * d) \div g>>

R(n) == <<n, 1>>
Zero == <<0, 1>>
NaN == <<0, 0>>
IsNaN(a) == a[2] = 0

RNeg(a) == <<-a[1], a[2]>>
RAdd(a, b) ==
  IF IsNaN(a) \/ IsNaN(b) THEN NaN
  ELSE IF a[1] = 0 THEN b
  ELSE IF b[1] = 0 THEN a
  ELSE LET g == GCD(a[2], b[2])
       IN  Frac(a[1] * (b[2] \div g) + b[1] * (a[2] \div g), (a[2] \div g) * b[2])
RSub(a, b) == RAdd(a, RNeg(b))
RMul(a, b) ==
  IF IsNaN(a) \/ IsNaN(b) THEN NaN
  ELSE IF a[1] = 0 \/ b[1] = 0 THEN Zero
  ELSE LET g1 == GCD(Abs(a[1]), b[2])
           g2 == GCD(Abs(b[1]), a[2])
       IN  <<(a[1] \div g1) * (b[1] \div g2), (a[2] \div g2) * (b[2] \div g1)>>
\* a / b; division by zero gives NaN (0/0) here, the callers never divide by 0
RDiv(a, b) ==
  IF IsNaN(a) \/ IsNaN(b) \/ b[1] = 0 THEN NaN
  ELSE RMul(a, IF b[1] < 0 THEN <<-b[2], -b[1]>> ELSE <<b[2], b[1]>>)
\* comparisons: false whenever an operand is NaN
RLe(a, b) ==
  /\ ~IsNaN(a) /\ ~IsNaN(b)
  /\ LET g == GCD(a[2], b[2]) IN a[1] * (b[2] \div g) <= b[1] * (a[2] \div g)
RLt(a, b) ==
  /\ ~IsNaN(a) /\ ~IsNaN(b)
  /\ LET g == GCD(a[2], b[2]) IN a[1] * (b[2] \div g) < b[1] * (a[2] \div g)
REq(a, b) == ~IsNaN(a) /\ ~IsNaN(b) /\ a = b

RECURSIVE RSumSeq(_)
RSumSeq(s) == IF s = <<>> THEN Zero ELSE RAdd(Head(s), RSumSeq(Tail(s)))

\* a sequence or function over 1..n as an explicit tuple
Force(s) == SubSeq(s, 1, Len(s))

\* an optional value: None, or Some(v)
None == <<>>
Some(v) == <<v>>
Get(opt, default) == IF opt = None THEN default ELSE opt[1]

\* ------------------------------------------------------------------------
\* Configuration dictionaries
\*
\*   cfg.components : None, or Some(function: component name -> component)
\*   component      : [U : option, b_transmission : option, elements : Seq]
\*   element        : [id : option, area : option, U : option,
\*                     surface : option]
\*   cfg.flat       : the flat keys of the dict that hold numbers
\*                    (A_ref, c_m, U_<Comp>, h_room, ...), key -> rational
\*   cfg.weather    : None, or Some([n : length of the index, T, GHI : series,
\*                     columns : the columns present, poa_global : element
\*                     id -> the plane-of-array series pvlib computes for
\*                     the element, step : hours between two index entries])
\*   cfg.series     : the keys of the dict that hold hourly series
\*   cfg.thermalClass : the thermal class of the building
\* ------------------------------------------------------------------------
HasKey(d, k) == k \in DOMAIN d
DictGet(d, k, default) == IF k \in DOMAIN d THEN d[k] ELSE default

\* ------------------------------------------------------------------------
\* validate_cfg  (config/validator.py)
\* ------------------------------------------------------------------------
ValidatedComps == <<"Walls", "Windows", "Roof", "Floor", "Doors">>

Issue(kind, comp, idx, id) == [kind |-> kind, comp |-> comp, idx |-> idx, id |-> id]

\* lines 53-61: the area of one element
AreaIssues(comp, idx, e) ==
  IF e.area = None THEN <<Issue("area missing", comp, idx, "")>>
  ELSE IF RLe(e.area[1], Zero) THEN <<Issue("area must be > 0", comp, idx, "")>>
  ELSE <<>>

\* lines 62-67: the U value of one element
ElemUIssues(comp, idx, e) ==
  IF e.U = None THEN <<Issue("U missing", comp, idx, "")>>
  ELSE IF RLe(e.U[1], Zero) THEN <<Issue("U must be positive number", comp, idx, "")>>
  ELSE <<>>

\* lines 46-52: the id of one element against the ids seen so far
IdIssues(comp, idx, e, seen) ==
  IF e.id = None THEN <<Issue("id missing", comp, idx, "")>>
  ELSE IF e.id[1] \in seen THEN <<Issue("duplicate element id", "", 0, e.id[1])>>
  ELSE <<>>

\* lines 42-67: the loop over the elements of a component without a
\* component-level U; returns <<issues, seen_ids>>
RECURSIVE ElementsLoop(_, _, _, _, _)
ElementsLoop(comp, elems, idx, seen, issues) ==
  IF idx > Len(elems) THEN <<issues, seen>>
  ELSE LET e == elems[idx]
           seen2 == IF e.id = None THEN seen ELSE seen \cup {e.id[1]}
       IN  ElementsLoop(comp, elems, idx + 1, seen2,
                        issues \o IdIssues(comp, idx, e, seen)
                               \o AreaIssues(comp, idx, e)
                               \o ElemUIssues(comp, idx, e))

\* lines 30-70: one component; returns <<issues, seen_ids>>
ComponentIssues(comps, comp, seen) ==
  IF ~HasKey(comps, comp) THEN <<<<Issue("missing", comp, 0, "")>>, seen>>
  ELSE LET c == comps[comp] IN
       IF c.U = None
       THEN IF c.elements = <<>>
            THEN <<<<Issue("U missing and no elements with U", comp, 0, "")>>, seen>>
            ELSE ElementsLoop(comp, c.elements, 1, seen, <<>>)
       ELSE IF RLe(c.U[1], Zero)
            THEN <<<<Issue("U must be positive number", comp, 0, "")>>, seen>>
            ELSE <<<<>>, seen>>

\* lines 28-70: the loop over the five components, seen_ids shared
RECURSIVE ComponentsLoop(_, _, _, _)
ComponentsLoop(comps, k, seen, issues) ==
  IF k > Len(ValidatedComps) THEN issues
  ELSE LET r == ComponentIssues(comps, ValidatedComps[k], seen)
       IN  ComponentsLoop(comps, k + 1, r[2], issues \o r[1])

LegacyKeys == <<"U_Window", "U_Wall_1", "U_Roof_1", "U_Floor_1", "U_Door_1">>

\* lines 72-87: the flat legacy keys
LegacyIssues(cfg) ==
  LET one(key) == IF ~HasKey(cfg.flat, key) THEN <<Issue("legacy key missing", key, 0, "")>>
                  ELSE IF RLe(cfg.flat[key], Zero)
                       THEN <<Issue("must be positive number", key, 0, "")>>
                       ELSE <<>>
  IN  one(LegacyKeys[1]) \o one(LegacyKeys[2]) \o one(LegacyKeys[3])
        \o one(LegacyKeys[4]) \o one(LegacyKeys[5])

\* lines 89-98: the weather table
WeatherIssues(cfg) ==
  IF cfg.weather = None THEN <<>>
  ELSE IF cfg.weather[1].n = 0 THEN <<Issue("weather timeseries appears empty", "", 0, "")>>
  ELSE <<>>

validate_cfg(cfg) ==
  (IF cfg.components # None
   THEN ComponentsLoop(cfg.components[1], 1, {}, <<>>)
   ELSE LegacyIssues(cfg))
  \o WeatherIssues(cfg)

\* ------------------------------------------------------------------------
\* ModelBUEM.CONST  (thermal/model_buem.py), in model units
\* ------------------------------------------------------------------------
CONST ==
  [ h_is        |-> R(1),
    lambda_at   |-> R(2),
    h_ms        |-> R(1),
    R_se        |-> R(2),
    h_r         |-> R(1),
    alpha       |-> R(1),
    delta_T_sky |-> R(1),
    rho_air     |-> R(1),
    C_air       |-> R(1) ]

\* ModelBUEM._cfg_float: a flat numeric key with its default
cfg_float(cfg, key, default) == DictGet(cfg.flat, key, default)

\* ------------------------------------------------------------------------
\* ModelBUEM._initEnvelop, structured component tree
\* ------------------------------------------------------------------------
\* lines 142-152: one parsed element
ParseElement(e) ==
  [id |-> e.id, area |-> Get(e.area, Zero), U |-> e.U, surface |-> e.surface]

ParseElements(elems) == Force([k \in 1..Len(elems) |-> ParseElement(elems[k])])

\* the area of the first element alone
FirstArea(parsed) == IF parsed = << >> THEN Zero ELSE parsed[1].area

\* line 160: total_area = sum(e["area"] for e in parsed)
TotalArea(parsed) == RSumSeq(Force([k \in 1..Len(parsed) |-> parsed[k].area]))

\* line 156: component U, with the flat key U_<comp> and 0.0 as fallbacks
ComponentU(cfg, comp_name, comp_data) ==
  Get(comp_data.U, DictGet(cfg.flat, "U_" \o comp_name, Zero))

\* lines 159-161: U * total_area * b_trans / 1000
Conductance(U, total_area, b_trans) ==
  RDiv(RMul(RMul(U, total_area), b_trans), R(1000))

\* lines 196-202: the ventilation conductance
VentilationConductance(cfg) ==
  LET A_ref     == cfg_float(cfg, "A_ref", R(1))
      h_room    == cfg_float(cfg, "h_room", Frac(5, 2))
      n_air_inf == cfg_float(cfg, "n_air_infiltration", Zero)
      n_air_use == cfg_float(cfg, "n_air_use", Zero)
  IN  RDiv(RMul(RMul(RMul(RMul(A_ref, h_room), CONST.rho_air), CONST.C_air),
                RAdd(n_air_inf, n_air_use)),
           R(3600))

\* the envelope fields of the instance after _initEnvelop
initEnvelop(cfg) ==
  LET comps == cfg.components[1]
      names == DOMAIN comps
      component_elements == [c \in names |-> ParseElements(comps[c].elements)]
      bU == [c \in names |-> ComponentU(cfg, c, comps[c])]
      bH == [c \in names \cup {"Ventilation"} |->
               IF c = "Ventilation" THEN VentilationConductance(cfg)
               ELSE Conductance(bU[c], TotalArea(component_elements[c]),
                                Get(comps[c].b_transmission, R(1)))]
  IN  [ component_elements |-> component_elements,
        bU |-> bU,
        bH |-> bH,
        windows |-> DictGet(component_elements, "Windows", <<>>) ]

\* ------------------------------------------------------------------------
\* ModelBUEM._calcRadiation
\*
\* The plane-of-array irradiance of a surface is pvlib's; the model takes
\* it as a part of the weather: weather.poa_global[id] is the series pvlib
\* returns for the element with that id (W/m2).
\* ------------------------------------------------------------------------
SeriesZero(n) == Force([t \in 1..n |-> Zero])
SeriesScale(k, s) == Force([t \in 1..Len(s) |-> RMul(k, s[t])])
SeriesAdd(a, b) == Force([t \in 1..Len(a) |-> RAdd(a[t], b[t])])
SeriesShift(a, k) == Force([t \in 1..Len(a) |-> RAdd(a[t], k)])

RECURSIVE SeriesSum(_, _)
SeriesSum(list, n) ==
  IF list = <<>> THEN SeriesZero(n) ELSE SeriesAdd(Head(list), SeriesSum(Tail(list), n))

IrradianceColumns == {"DNI", "DHI", "GHI"}

\* the ids of all elements of the tree that have one (lines 362-366)
ElementIds(component_elements) ==
  UNION { { component_elements[c][k].id[1] :
              k \in {j \in 1..Len(component_elements[c]) :
                       component_elements[c][j].id # None} } :
          c \in DOMAIN component_elements }

\* lines 361-399: the table _irrad_surf, one column per element id, kW/m2
calcRadiation(weather, component_elements) ==
  [eid \in ElementIds(component_elements) |->
     SeriesScale(Frac(1, 1000), weather.poa_global[eid])]

\* ------------------------------------------------------------------------
\* ModelBUEM._init5R1C
\* ------------------------------------------------------------------------
bClass_f_lb ==
  [c \in {"very light", "light", "medium", "heavy", "very heavy"} |->
     CASE c = "very light" -> Zero      [] c = "light" -> R(95)
       [] c = "medium" -> Frac(275, 2)  [] c = "heavy" -> Frac(425, 2)
       [] c = "very heavy" -> Frac(627, 2)]
bClass_f_ub ==
  [c \in {"very light", "light", "medium", "heavy", "very heavy"} |->
     CASE c = "very light" -> R(95)     [] c = "light" -> Frac(275, 2)
       [] c = "medium" -> Frac(425, 2)  [] c = "heavy" -> Frac(627, 2)
       [] c = "very heavy" -> R(627)]
bClass_f_a ==
  [c \in {"very light", "light", "medium", "heavy", "very heavy"} |->
     CASE c = "very light" -> Frac(5, 2) [] c = "light" -> Frac(5, 2)
       [] c = "medium" -> Frac(5, 2)     [] c = "heavy" -> R(3)
       [] c = "very heavy" -> Frac(7, 2)]

\* lines 230-231: cfg["c_m"], written into the dict when it has none
SpecificHeat(cfg) ==
  IF HasKey(cfg.flat, "c_m") THEN cfg.flat["c_m"]
  ELSE RDiv(RAdd(DictGet(bClass_f_lb, cfg.thermalClass, Frac(275, 2)),
                 DictGet(bClass_f_ub, cfg.thermalClass, Frac(275, 2))), R(2))

\* the irradiance series a window uses (lines 283-290)
WindowPoa(w, irrad_surf, weather) ==
  LET surf_ref == IF w.surface # None THEN w.surface ELSE w.id IN
  IF surf_ref # None /\ surf_ref[1] \in DOMAIN irrad_surf THEN irrad_surf[surf_ref[1]]
  ELSE IF w.id # None /\ w.id[1] \in DOMAIN irrad_surf THEN irrad_surf[w.id[1]]
  ELSE SeriesScale(Frac(1, 1000), weather.GHI)

\* the irradiance series an opaque element uses (lines 322, 330)
OpaquePoa(e, irrad_surf, weather) ==
  IF e.id # None /\ e.id[1] \in DOMAIN irrad_surf THEN irrad_surf[e.id[1]]
  ELSE SeriesScale(Frac(1, 1000), weather.GHI)

\* no thermal sky loss at all
NoThermalRad(env, cfg) == Zero

\* lines 299-313: the thermal sky loss of the windows
ThermalRadWin(env, cfg) ==
  LET H_windows == DictGet(env.bH, "Windows", Zero) IN
  IF RLt(Zero, H_windows)
  THEN RMul(RMul(RMul(H_windows, CONST.h_r), CONST.R_se), CONST.delta_T_sky)
  ELSE LET total_window_area == TotalArea(env.windows)
           U_win == DictGet(env.bU, "Windows", DictGet(cfg.flat, "U_Window", Zero))
       IN  RMul(RMul(RMul(RMul(total_window_area, CONST.h_r),
                          RDiv(U_win, R(1000))), CONST.R_se), CONST.delta_T_sky)

\* lines 277-335: the solar gain profiles
SolarProfiles(env, cfg, irrad_surf) ==
  LET n       == cfg.weather[1].n
      weather == cfg.weather[1]
      g_gl      == DictGet(cfg.flat, "g_gl_n_Window", Frac(1, 2))
      F_sh_vert == DictGet(cfg.flat, "F_sh_vert", R(1))
      F_sh_hor  == DictGet(cfg.flat, "F_sh_hor", R(1))
      F_w       == DictGet(cfg.flat, "F_w", R(1))
      F_f       == DictGet(cfg.flat, "F_f", Frac(3, 5))
      alpha     == CONST.alpha
      wins  == env.windows
      walls == DictGet(env.component_elements, "Walls", <<>>)
      roofs == DictGet(env.component_elements, "Roof", <<>>)
      win_list == Force([k \in 1..Len(wins) |->
                    SeriesScale(RMul(RMul(RMul(wins[k].area, g_gl), RSub(R(1), F_f)), F_w),
                                WindowPoa(wins[k], irrad_surf, weather))])
      wall_q == Force([k \in 1..Len(walls) |->
                    SeriesScale(RMul(RMul(walls[k].area, alpha), F_sh_vert),
                                OpaquePoa(walls[k], irrad_surf, weather))])
      roof_q == Force([k \in 1..Len(roofs) |->
                    SeriesScale(RMul(RMul(roofs[k].area, alpha), F_sh_hor),
                                OpaquePoa(roofs[k], irrad_surf, weather))])
      qWalls == SeriesSum(wall_q, n)
      qRoof  == SeriesSum(roof_q, n)
      qFloor == SeriesZero(n)
  IN  [ bQ_sol_Windows |-> SeriesShift(SeriesSum(win_list, n), RNeg(ThermalRadWin(env, cfg))),
        bQ_sol_Walls   |-> qWalls,
        bQ_sol_Roof    |-> qRoof,
        bQ_sol_Floor   |-> qFloor,
        bQ_sol_Opaque  |-> SeriesAdd(SeriesAdd(qWalls, qRoof), qFloor) ]

\* the instance fields _init5R1C sets, for the envelope env; exc names the
\* exception _calcRadiation raises for a weather table without DNI/DHI/GHI
init5R1C(env, cfg) ==
  LET weather      == cfg.weather[1]
      thermalClass == cfg.thermalClass
      bA_f   == DictGet(cfg.flat, "A_ref", R(100))
      bA_m   == RMul(bA_f, DictGet(bClass_f_a, thermalClass, Frac(5, 2)))
      bH_ms  == RMul(bA_m, CONST.h_ms)
      c_m    == SpecificHeat(cfg)
      bC_m   == RDiv(RMul(bA_f, c_m), R(3600))
      bA_tot == RMul(bA_f, CONST.lambda_at)
      bH_is  == RMul(bA_tot, CONST.h_is)
      ok     == IrradianceColumns \subseteq weather.columns
      irrad  == IF ok THEN calcRadiation(weather, env.component_elements) ELSE <<>>
  IN  [ exc   |-> IF ok THEN "" ELSE "RuntimeError",
        c_m   |-> c_m,
        bA_f  |-> bA_f, bA_m |-> bA_m, bH_ms |-> bH_ms, bC_m |-> bC_m,
        bA_tot |-> bA_tot, bH_is |-> bH_is,
        bT_comf_lb |-> DictGet(cfg.flat, "comfortT_lb", R(21)),
        bT_comf_ub |-> DictGet(cfg.flat, "comfortT_ub", R(24)),
        irrad_surf |-> irrad,
        profiles |-> IF ok THEN SolarProfiles(env, cfg, irrad) ELSE <<>> ]

\* ------------------------------------------------------------------------
\* ModelBUEM._addConstraints
\*
\* A row is [c : column -> coefficient (the entries the code assigns, the
\* rest are 0), v : right-hand side, hour, kind].  hour and kind record the
\* loop index and the numbered comment of the code block that emits the
\* row; the solvers read c and v only.  Columns are numbered from 0 as in
\* the code; hours i are 0..n-1, series are indexed from 1 (i + 1).
\* ------------------------------------------------------------------------
idx_T_air(i, n) == i
idx_T_m(i, n) == n + i
idx_T_sur(i, n) == 2 * n + i
idx_Q_HC(i, n) == 3 * n + i

Row(c, v, hour, kind) == [c |-> c, v |-> v, hour |-> hour, kind |-> kind]

\* an optional input series of the dict, zeros when absent (lines 555-558)
SeriesOf(cfg, key, n) == DictGet(cfg.series, key, SeriesZero(n))

\* line 532: the total transmission
TotalTransmission(bH) ==
  LET H_walls   == DictGet(bH, "Walls", Zero)
      H_roofs   == DictGet(bH, "Roof", Zero)
      H_floors  == DictGet(bH, "Floor", Zero)
      H_windows == DictGet(bH, "Windows", Zero)
      H_doors   == DictGet(bH, "Doors", Zero)
      H_ve      == DictGet(bH, "Ventilation", Zero)
  IN  RAdd(RAdd(RAdd(RAdd(RAdd(H_ve, H_walls), H_roofs), H_floors), H_windows), H_doors)

\* lines 552-559: the internal gain of hour i
InternalGain(cfg, i, n) ==
  LET occ      == RSub(R(1), SeriesOf(cfg, "occ_nothome", n)[i + 1])
      sleeping == SeriesOf(cfg, "occ_sleeping", n)[i + 1]
      Q_ig     == SeriesOf(cfg, "Q_ig", n)[i + 1]
      elecLoad == SeriesOf(cfg, "elecLoad", n)[i + 1]
      sleeping_factor == Frac(1, 2)
  IN  RMul(RAdd(Q_ig, elecLoad),
           RAdd(RMul(occ, RSub(R(1), sleeping)), RMul(sleeping_factor, sleeping)))

\* the air node balance if the whole window gain went to the air node
AirRowWholeWindowGain(m, cfg, i, n) ==
  LET H_ve  == DictGet(m.bH, "Ventilation", Zero)
      T_e   == cfg.weather[1].T[i + 1]
      Q_air == RAdd(InternalGain(cfg, i, n), m.profiles.bQ_sol_Windows[i + 1])
  IN  Row((idx_Q_HC(i, n) :> R(-1)) @@ (idx_T_sur(i, n) :> RNeg(m.bH_is))
            @@ (idx_T_air(i, n) :> RAdd(m.bH_is, H_ve)),
          RAdd(Q_air, RMul(H_ve, T_e)), i, "air")

\* lines 567-574: 1) air node balance
AirRow(m, cfg, i, n) ==
  LET H_ve  == DictGet(m.bH, "Ventilation", Zero)
      T_e   == cfg.weather[1].T[i + 1]
      Q_air == RAdd(InternalGain(cfg, i, n),
                    RMul(Frac(1, 2), m.profiles.bQ_sol_Windows[i + 1]))
  IN  Row((idx_Q_HC(i, n) :> R(-1)) @@ (idx_T_sur(i, n) :> RNeg(m.bH_is))
            @@ (idx_T_air(i, n) :> RAdd(m.bH_is, H_ve)),
          RAdd(Q_air, RMul(H_ve, T_e)), i, "air")

\* lines 576-582: 2) surface node balance
SurfaceRow(m, cfg, i, n) ==
  LET H_windows == DictGet(m.bH, "Windows", Zero)
      T_e       == cfg.weather[1].T[i + 1]
      Q_surface == RAdd(m.profiles.bQ_sol_Opaque[i + 1],
                        RMul(Frac(1, 2), m.profiles.bQ_sol_Windows[i + 1]))
  IN  Row((idx_T_m(i, n) :> RNeg(m.bH_ms)) @@ (idx_T_air(i, n) :> RNeg(m.bH_is))
            @@ (idx_T_sur(i, n) :> RAdd(RAdd(m.bH_is, m.bH_ms), H_windows)),
          RAdd(Q_surface, RMul(H_windows, T_e)), i, "surface")

\* lines 584-607: 3) mass node
MassRow(m, cfg, i, n) ==
  LET H_tot == TotalTransmission(m.bH)
      T_e   == cfg.weather[1].T[i + 1]
      Cs    == RDiv(m.bC_m, m.stepSize)
  IN  IF i = 0
      THEN Row((idx_T_m(i, n) :> R(1)), m.T_set, i, "mass initial")
      ELSE IF i < n - 1
      THEN Row((idx_T_sur(i, n) :> m.bH_ms) @@ (idx_T_m(i + 1, n) :> Cs)
                 @@ (idx_T_m(i, n) :> RSub(RSub(RNeg(Cs), m.bH_ms), H_tot)),
               RNeg(RMul(H_tot, T_e)), i, "mass dynamics")
      ELSE Row((idx_T_m(0, n) :> R(1)) @@ (idx_T_m(i, n) :> R(-1)),
               Zero, i, "mass periodic")

\* lines 609-615: 4) the fixed-setpoint equality
HvacRow(m, i, n) ==
  LET H_tot == TotalTransmission(m.bH)
  IN  Row((idx_T_air(i, n) :> H_tot) @@ (idx_Q_HC(i, n) :> R(1)),
          RMul(H_tot, m.T_set), i, "hvac")

T_air_min == 15
T_air_max == 30
T_sur_min == 10
T_sur_max == 35
T_m_min == 15
T_m_max == 30

\* the bound rows of an hour if the load were bounded too: Q_HC >= 0
BoundRowsWithLoad(i, n) ==
  << Row((idx_T_air(i, n) :> R(1)),  R(T_air_max),  i, "T_air max"),
     Row((idx_T_air(i, n) :> R(-1)), R(-T_air_min), i, "T_air min"),
     Row((idx_T_sur(i, n) :> R(1)),  R(T_sur_max),  i, "T_sur max"),
     Row((idx_T_sur(i, n) :> R(-1)), R(-T_sur_min), i, "T_sur min"),
     Row((idx_T_m(i, n) :> R(1)),    R(T_m_max),    i, "T_m max"),
     Row((idx_T_m(i, n) :> R(-1)),   R(-T_m_min),   i, "T_m min"),
     Row((idx_Q_HC(i, n) :> R(-1)),  Zero,          i, "Q_HC min") >>

\* lines 617-655: the six bound rows of an hour, A_ineq x <= b_ineq
BoundRows(i, n) ==
  << Row((idx_T_air(i, n) :> R(1)),  R(T_air_max),  i, "T_air max"),
     Row((idx_T_air(i, n) :> R(-1)), R(-T_air_min), i, "T_air min"),
     Row((idx_T_sur(i, n) :> R(1)),  R(T_sur_max),  i, "T_sur max"),
     Row((idx_T_sur(i, n) :> R(-1)), R(-T_sur_min), i, "T_sur min"),
     Row((idx_T_m(i, n) :> R(1)),    R(T_m_max),    i, "T_m max"),
     Row((idx_T_m(i, n) :> R(-1)),   R(-T_m_min),   i, "T_m min") >>

\* the rows of an hour if the last hour got no mass-node row
HourEqRowsNoPeriodic(m, cfg, i, n, use_inequality_constraints) ==
  << AirRow(m, cfg, i, n), SurfaceRow(m, cfg, i, n) >>
  \o (IF i < n - 1 THEN << MassRow(m, cfg, i, n) >> ELSE << >>)
  \o (IF ~use_inequality_constraints THEN << HvacRow(m, i, n) >> ELSE << >>)

\* the equality rows of hour i, in the order the loop appends them
HourEqRows(m, cfg, i, n, use_inequality_constraints) ==
  << AirRow(m, cfg, i, n), SurfaceRow(m, cfg, i, n), MassRow(m, cfg, i, n) >>
  \o (IF ~use_inequality_constraints THEN << HvacRow(m, i, n) >> ELSE << >>)

HourIneqRows(i, n, use_inequality_constraints) ==
  IF use_inequality_constraints THEN BoundRows(i, n) ELSE << >>

RECURSIVE EqLoop(_, _, _, _, _)
EqLoop(m, cfg, i, n, use_inequality_constraints) ==
  IF i >= n THEN << >>
  ELSE HourEqRows(m, cfg, i, n, use_inequality_constraints)
         \o EqLoop(m, cfg, i + 1, n, use_inequality_constraints)

RECURSIVE IneqLoop(_, _, _)
IneqLoop(i, n, use_inequality_constraints) ==
  IF i >= n THEN << >>
  ELSE HourIneqRows(i, n, use_inequality_constraints)
         \o IneqLoop(i + 1, n, use_inequality_constraints)

\* lines 507-680: n_vars and the assembled rows (None: no row, as the
\* code's "vstack(rows) if rows else None")
addConstraints(m, cfg, use_inequality_constraints) ==
  LET n == Len(m.timeIndex)
      eq == EqLoop(m, cfg, 0, n, use_inequality_constraints)
      ineq == IneqLoop(0, n, use_inequality_constraints)
  IN  [ n_vars |-> 4 * n,
        A_eq   |-> IF eq = << >> THEN None ELSE Some(eq),
        A_ineq |-> IF ineq = << >> THEN None ELSE Some(ineq) ]

\* ------------------------------------------------------------------------
\* scipy.sparse.linalg.spsolve, as sim_model uses it (line 738)
\*
\* LU factorisation with row pivoting, carried out exactly.  For a matrix
\* that is exactly singular the library warns (MatrixRankWarning), fills
\* the result with NaN and returns it: it raises nothing.
\* ------------------------------------------------------------------------
\* the dense augmented matrix [A | b] of a list of rows, columns 1..n_vars+1
Dense(rows, n_vars) ==
  Force([r \in 1..Len(rows) |->
    Force([j \in 1..(n_vars + 1) |->
      IF j = n_vars + 1 THEN rows[r].v ELSE DictGet(rows[r].c, j - 1, Zero)])])

\* Gauss-Jordan elimination of the rows M (each of nc coefficients and a
\* right-hand side) from column k and row r on.  pivots lists the pivot
\* columns; row t of the result has its leading 1 in column pivots[t].
RECURSIVE Rref(_, _, _, _, _)
Rref(M, k, r, nc, pivots) ==
  IF k > nc \/ r > Len(M) THEN [M |-> M, pivots |-> pivots]
  ELSE LET cand == {q \in r..Len(M) : M[q][k][1] # 0} IN
       IF cand = {} THEN Rref(M, k + 1, r, nc, pivots)
       ELSE LET p    == CHOOSE q \in cand : \A q2 \in cand : q <= q2
                Mp   == M[p]
                piv  == Mp[k]
                rowk == Force([j \in 1..(nc + 1) |-> RDiv(Mp[j], piv)])
                M2   == Force([q \in 1..Len(M) |->
                          IF q = r THEN rowk
                          ELSE LET src == IF q = p THEN M[r] ELSE M[q] IN
                               IF src[k][1] = 0 THEN src
                               ELSE Force([j \in 1..(nc + 1) |->
                                      RSub(src[j], RMul(src[k], rowk[j]))])])
            IN  Rref(M2, k + 1, r + 1, nc, Append(pivots, k))

\* x with A x = b, or the NaN-filled vector for a singular A
spsolve(rows, n_vars) ==
  LET E == Rref(Dense(rows, n_vars), 1, 1, n_vars, << >>)
  IN  IF Len(E.pivots) < n_vars THEN Force([j \in 1..n_vars |-> NaN])
      ELSE Force([j \in 1..n_vars |-> E.M[j][n_vars + 1]])

\* row . x  (x[j + 1] is the value of column j)
RECURSIVE DotCols(_, _, _)
DotCols(c, x, cols) ==
  IF cols = {} THEN Zero
  ELSE LET j == CHOOSE k \in cols : TRUE
       IN  RAdd(RMul(c[j], x[j + 1]), DotCols(c, x, cols \ {j}))
Dot(row, x) == DotCols(row.c, x, DOMAIN row.c)

\* ------------------------------------------------------------------------
\* cvxpy's Problem.solve(solver=OSQP) on the program of sim_model
\* (lines 741-763):  minimise sum(x[3n:4n])  subject to  A_eq x = b_eq,
\* A_ineq x <= b_ineq.
\*
\* The exact optimum is found by eliminating the equalities and visiting
\* the vertices of the remaining polytope.  Every unknown of the program is
\* bounded (each temperature by two bound rows, each Q_HC by its air-node
\* row), so a feasible program has an optimal vertex.
\* ------------------------------------------------------------------------
RECURSIVE SetToSeq(_)
SetToSeq(S) ==
  IF S = {} THEN << >>
  ELSE LET e == CHOOSE x \in S : \A y \in S : x <= y
       IN  <<e>> \o SetToSeq(S \ {e})

RECURSIVE KSubsets(_, _)
KSubsets(S, k) ==
  IF k = 0 THEN {{}}
  ELSE IF Cardinality(S) < k THEN {}
  ELSE LET e == CHOOSE x \in S : \A y \in S : x <= y
       IN  {T \cup {e} : T \in KSubsets(S \ {e}, k - 1)} \cup KSubsets(S \ {e}, k)

RECURSIVE SeqDot(_, _, _)
SeqDot(a, y, g) == IF g = 0 THEN Zero ELSE RAdd(RMul(a[g], y[g]), SeqDot(a, y, g - 1))

RECURSIVE SumCols(_, _, _)
SumCols(x, lo, hi) == IF lo > hi THEN Zero ELSE RAdd(x[lo], SumCols(x, lo + 1, hi))

\* the objective of line 756
Objective(x, n) == SumCols(x, 3 * n + 1, 4 * n)

\* the columns without a pivot, in ascending order
FreeColumns(pivots, n_vars) ==
  SetToSeq((1..n_vars) \ {pivots[t] : t \in 1..Len(pivots)})

PivotRow(pivots, j) == CHOOSE u \in 1..Len(pivots) : pivots[u] = j

\* column j as an affine function of the free columns y: coefficients
\* 1..f and the constant f + 1
AffineColumn(M, pivots, free, n_vars, j) ==
  IF \E g \in 1..Len(free) : free[g] = j
  THEN Force([g \in 1..(Len(free) + 1) |->
         IF g <= Len(free) /\ free[g] = j THEN R(1) ELSE Zero])
  ELSE Force([g \in 1..(Len(free) + 1) |->
         IF g <= Len(free) THEN RNeg(M[PivotRow(pivots, j)][free[g]])
         ELSE M[PivotRow(pivots, j)][n_vars + 1]])

Affine(M, pivots, free, n_vars) ==
  Force([j \in 1..n_vars |-> AffineColumn(M, pivots, free, n_vars, j)])

\* the coefficient g of a row after the substitution
RECURSIVE RowCoef(_, _, _, _)
RowCoef(c, Aff, g, cols) ==
  IF cols = {} THEN Zero
  ELSE LET j == CHOOSE k \in cols : TRUE
       IN  RAdd(RMul(c[j], Aff[j + 1][g]), RowCoef(c, Aff, g, cols \ {j}))

\* an inequality row over y: coefficients 1..f and the bound f + 1
TransformRow(row, Aff, f) ==
  Force([g \in 1..(f + 1) |->
    IF g <= f THEN RowCoef(row.c, Aff, g, DOMAIN row.c)
    ELSE RSub(row.v, RowCoef(row.c, Aff, f + 1, DOMAIN row.c))])

TransformRows(ineq_rows, Aff, f) ==
  Force([k \in 1..Len(ineq_rows) |-> TransformRow(ineq_rows[k], Aff, f)])

FeasiblePoint(Tineq, y, f) ==
  \A k \in 1..Len(Tineq) : RLe(SeqDot(Tineq[k], y, f), Tineq[k][f + 1])

\* the point where the f rows S hold with equality, if there is one
VertexOf(V, f) ==
  IF Len(V.pivots) < f THEN << >> ELSE <<Force([g \in 1..f |-> V.M[g][f + 1]])>>

Vertex(Tineq, S, f) ==
  VertexOf(Rref(Force([g \in 1..f |-> Tineq[S[g]]]), 1, 1, f, << >>), f)

\* a row with no coefficient left bounds nothing: it holds or it makes the
\* program infeasible, and it is part of no vertex
Candidates(Tineq, f) ==
  {k \in 1..Len(Tineq) : \E g \in 1..f : Tineq[k][g][1] # 0}

Blocked(Tineq, f) ==
  \E k \in 1..Len(Tineq) :
    /\ \A g \in 1..f : Tineq[k][g][1] = 0
    /\ RLt(Tineq[k][f + 1], Zero)

Vertices(Tineq, f) ==
  IF Blocked(Tineq, f) THEN {}
  ELSE {v[1] : v \in {Vertex(Tineq, SetToSeq(S), f) :
                        S \in KSubsets(Candidates(Tineq, f), f)} \ {<< >>}}

Point(Aff, y, f, n_vars) ==
  Force([j \in 1..n_vars |-> RAdd(SeqDot(Aff[j], y, f), Aff[j][f + 1])])

FeasibleVertices(Aff, Tineq, f, n_vars) ==
  {Point(Aff, y, f, n_vars) : y \in {z \in Vertices(Tineq, f) : FeasiblePoint(Tineq, z, f)}}

\* the answer of a solver that maximised the objective
LpMaximum(Xs, n) ==
  [ feasible |-> Xs # {},
    optimal  |-> {x \in Xs : \A x2 \in Xs : RLe(Objective(x2, n), Objective(x, n))} ]

\* [feasible, optimal]: whether the program has a feasible point, and its
\* optimal vertices
LpResult(Xs, n) ==
  [ feasible |-> Xs # {},
    optimal  |-> {x \in Xs : \A x2 \in Xs : RLe(Objective(x, n), Objective(x2, n))} ]

LpAffine(Aff, f, ineq_rows, n_vars, n) ==
  LpResult(FeasibleVertices(Aff, TransformRows(ineq_rows, Aff, f), f, n_vars), n)

LpFree(E, free, ineq_rows, n_vars, n) ==
  LpAffine(Affine(E.M, E.pivots, free, n_vars), Len(free), ineq_rows, n_vars, n)

LpEliminated(E, ineq_rows, n_vars, n) ==
  IF \E q \in (Len(E.pivots) + 1)..Len(E.M) : E.M[q][n_vars + 1][1] # 0
  THEN LpResult({}, n)
  ELSE LpFree(E, FreeColumns(E.pivots, n_vars), ineq_rows, n_vars, n)

LinearProgram(eq_rows, ineq_rows, n_vars, n) ==
  LpEliminated(Rref(Dense(eq_rows, n_vars), 1, 1, n_vars, << >>), ineq_rows, n_vars, n)

\* ------------------------------------------------------------------------
\* ModelBUEM: the instance
\*
\* An attribute that is not set yet (None in __init__, or not there at
\* all) is None; a number is a rational, a series a tuple of rationals.
\* ------------------------------------------------------------------------
\* __init__ (lines 63-103)
NewModel(cfg) ==
  [ times |-> cfg.weather[1].n,
    component_elements |-> << >>, bU |-> << >>, bH |-> << >>, windows |-> << >>,
    bA_f |-> None, bA_m |-> None, bH_ms |-> None, bC_m |-> None,
    bA_tot |-> None, bH_is |-> None, bT_comf_lb |-> None, bT_comf_ub |-> None,
    irrad_surf |-> << >>, profiles |-> << >>,
    timeIndex |-> << >>, stepSize |-> None, T_set |-> None, n_vars |-> 0,
    T_air |-> None, T_m |-> None, T_sur |-> None, Q_HC |-> None,
    heating_load |-> None, cooling_load |-> None,
    detailedResults |-> FALSE ]

\* the result attributes a solve assigns
ResultAttributes == {"T_air", "T_m", "T_sur", "Q_HC", "heating_load", "cooling_load"}

\* np.maximum(0.0, q), np.minimum(0.0, q): NaN stays NaN
Maximum0(q) == Force([i \in 1..Len(q) |->
                 IF IsNaN(q[i]) THEN NaN ELSE IF RLt(q[i], Zero) THEN Zero ELSE q[i]])
Minimum0(q) == Force([i \in 1..Len(q) |->
                 IF IsNaN(q[i]) THEN NaN ELSE IF RLt(Zero, q[i]) THEN Zero ELSE q[i]])
ZerosLike(q) == Force([i \in 1..Len(q) |-> Zero])

\* the statuses cvxpy reports
CvxStatuses == {"optimal", "optimal_inaccurate", "infeasible", "infeasible_inaccurate",
                "unbounded", "unbounded_inaccurate", "solver_error"}

\* the statuses the solver can report for a program: an answer that fits
\* the program, with full or reduced accuracy, or a failure of the solver
StatusesOf(lp) ==
  IF lp.feasible THEN {"optimal", "optimal_inaccurate", "solver_error"}
  ELSE {"infeasible", "infeasible_inaccurate", "solver_error"}

\* the statuses accepted if only an exact optimum counted
OptimalOnly == {"optimal"}

\* line 761: the statuses sim_model accepts
AcceptedStatuses == {"optimal", "optimal_inaccurate"}

\* sim_model, lines 694-696: _initPara, _initEnvelop, _init5R1C
SimInitPara(m, cfg, env, p) ==
  [ exc |-> p.exc,
    cfg |-> [cfg EXCEPT !.flat = @ @@ ("c_m" :> p.c_m)],
    m   |-> [m EXCEPT !.component_elements = env.component_elements,
                      !.bU = env.bU, !.bH = env.bH, !.windows = env.windows,
                      !.bA_f = p.bA_f, !.bA_m = p.bA_m, !.bH_ms = p.bH_ms,
                      !.bC_m = p.bC_m, !.bA_tot = p.bA_tot, !.bH_is = p.bH_is,
                      !.bT_comf_lb = p.bT_comf_lb, !.bT_comf_ub = p.bT_comf_ub,
                      !.irrad_surf = p.irrad_surf,
                      !.profiles = IF p.exc = "" THEN p.profiles ELSE m.profiles] ]

SimInitEnv(m, cfg, env) == SimInitPara(m, cfg, env, init5R1C(env, cfg))

SimInit(m, cfg) == SimInitEnv(m, cfg, initEnvelop(cfg))

\* lines 699-713: the time index, the step and the setpoint
SimSetup(m, cfg, comfort_mode) ==
  [m EXCEPT !.timeIndex = Force([t \in 1..m.times |-> <<1, t - 1>>]),
            !.stepSize = cfg.weather[1].step,
            !.T_set = IF comfort_mode = "heating" THEN m.bT_comf_lb ELSE m.bT_comf_ub]

\* lines 765-776: unpack x and split the load by comfort mode
Unpack(m, x, comfort_mode) ==
  LET n    == Len(m.timeIndex)
      Q_HC == SubSeq(x, 3 * n + 1, 4 * n)
  IN  [m EXCEPT !.T_air = SubSeq(x, 1, n),
                !.T_m   = SubSeq(x, n + 1, 2 * n),
                !.T_sur = SubSeq(x, 2 * n + 1, 3 * n),
                !.Q_HC  = Q_HC,
                !.heating_load = IF comfort_mode = "heating" THEN Maximum0(Q_HC)
                                 ELSE ZerosLike(Q_HC),
                !.cooling_load = IF comfort_mode = "heating" THEN ZerosLike(Q_HC)
                                 ELSE Minimum0(Q_HC)]

\* lines 782-811: _readResults builds the detailedResults frame, whose
\* columns must all have the length of the index
ReadResults(m, cfg) ==
  IF Len(SeriesOf(cfg, "elecLoad", m.times)) # m.times
  THEN [exc |-> "ValueError", m |-> m]
  ELSE [exc |-> "", m |-> [m EXCEPT !.detailedResults = TRUE]]

Outcome(m, cfg, exc, status) == [m |-> m, cfg |-> cfg, exc |-> exc, status |-> status]

\* the input series _addConstraints indexes with .iloc[i] (lines 555-558)
IndexedSeries == {"occ_nothome", "occ_sleeping", "Q_ig", "elecLoad"}

\* lines 765-780: unpack, split, _readResults
FinishRead(r, cfg, status) == Outcome(r.m, cfg, r.exc, status)

Finish(m, x, cfg, comfort_mode, status) ==
  FinishRead(ReadResults(Unpack(m, x, comfort_mode), cfg), cfg, status)

\* lines 740-763: the bounded solve
SimStatuses(m, lp, cfg, comfort_mode) ==
  UNION { IF status \notin AcceptedStatuses
          THEN {Outcome(m, cfg, "RuntimeError: cvxpy failed", status)}
          ELSE {Finish(m, x, cfg, comfort_mode, status) : x \in lp.optimal}
          : status \in StatusesOf(lp) }

\* lines 729-763: the solver selection
SimSolve(m, sys, cfg, use_inequality_constraints, comfort_mode) ==
  IF ~use_inequality_constraints
  THEN IF sys.A_eq = None
       THEN {Outcome(m, cfg, "RuntimeError: no equality constraints", "")}
       ELSE IF Len(sys.A_eq[1]) # sys.n_vars
       THEN {Outcome(m, cfg, "ValueError: A_eq must be square", "")}
       ELSE {Finish(m, spsolve(sys.A_eq[1], sys.n_vars), cfg, comfort_mode, "")}
  ELSE SimStatuses(m, LinearProgram(Get(sys.A_eq, << >>), Get(sys.A_ineq, << >>),
                                    sys.n_vars, Len(m.timeIndex)),
                   cfg, comfort_mode)

\* line 726: _addConstraints, which indexes the input series by hour
SimAssemble(m, cfg, use_inequality_constraints, comfort_mode) ==
  IF \E k \in IndexedSeries : Len(SeriesOf(cfg, k, Len(m.timeIndex))) < Len(m.timeIndex)
  THEN {Outcome([m EXCEPT !.n_vars = 4 * Len(m.timeIndex)], cfg, "IndexError", "")}
  ELSE SimSolve([m EXCEPT !.n_vars = 4 * Len(m.timeIndex)],
                addConstraints(m, cfg, use_inequality_constraints),
                cfg, use_inequality_constraints, comfort_mode)

\* lines 699-713, after the three init steps ended as i0
SimAfterInit(i0, use_inequality_constraints, comfort_mode) ==
  IF i0.exc # "" THEN {Outcome(i0.m, i0.cfg, i0.exc, "")}
  ELSE IF i0.m.times < 2 THEN {Outcome(i0.m, i0.cfg, "IndexError", "")}
  ELSE IF comfort_mode \notin {"heating", "cooling"}
       THEN {Outcome([i0.m EXCEPT !.timeIndex = Force([t \in 1..i0.m.times |-> <<1, t - 1>>]),
                                  !.stepSize = i0.cfg.weather[1].step],
                     i0.cfg, "ValueError", "")}
  ELSE SimAssemble(SimSetup(i0.m, i0.cfg, comfort_mode), i0.cfg,
                   use_inequality_constraints, comfort_mode)

\* ModelBUEM.sim_model: the set of outcomes of one call.  An outcome is the
\* instance and the dict as the call leaves them, the exception it raised
\* ("" when it returned) and the solver status ("" when no solver ran).
sim_model(m, cfg, use_inequality_constraints, comfort_mode) ==
  SimAfterInit(SimInit(m, cfg), use_inequality_constraints, comfort_mode)

\* ------------------------------------------------------------------------
\* run_model  (main.py), with plot and fill_missing_components left False
\* ------------------------------------------------------------------------
\* the parameters of sim_model besides self (model_buem.py line 682)
sim_model_parameters == {"use_inequality_constraints", "comfort_mode"}

\* a call of sim_model with keyword arguments: Python raises TypeError for
\* a keyword that is no parameter, before the body runs
CallSimModel(m, cfg, kwargs) ==
  IF ~(DOMAIN kwargs \subseteq sim_model_parameters)
  THEN {Outcome(m, cfg, "TypeError", "")}
  ELSE sim_model(m, cfg, kwargs.use_inequality_constraints, kwargs.comfort_mode)

\* the keyword arguments of the three calls (lines 61, 81, 85)
KwMilp == [use_inequality_constraints |-> TRUE, comfort_mode |-> "heating", use_milp |-> TRUE]
KwHeat == [use_inequality_constraints |-> FALSE, comfort_mode |-> "heating", use_milp |-> FALSE]
KwCool == [use_inequality_constraints |-> FALSE, comfort_mode |-> "cooling", use_milp |-> FALSE]

\* what run_model leaves: the exception it raised ("" when it returned),
\* the exception inside the try block that caused it, the returned dict,
\* the instances it built and the caller's dict
RunOutcome(exc, cause, heating, cooling, built, cfg) ==
  [exc |-> exc, cause |-> cause, heating |-> heating, cooling |-> cooling,
   built |-> built, cfg |-> cfg]

\* lines 57-77: the MILP path
RunMilp(cfg) ==
  IF cfg.weather = None THEN {RunOutcome("RuntimeError", "KeyError", None, None, << >>, cfg)}
  ELSE { IF o.exc # ""
         THEN RunOutcome("RuntimeError", o.exc, None, None, <<o.m>>, o.cfg)
         ELSE IF o.m.heating_load = None \/ o.m.cooling_load = None
         THEN RunOutcome("RuntimeError", "RuntimeError", None, None, <<o.m>>, o.cfg)
         ELSE RunOutcome("", "", o.m.heating_load, o.m.cooling_load, <<o.m>>, o.cfg)
         : o \in CallSimModel(NewModel(cfg), cfg, KwMilp) }

\* lines 79-107: the heating run, then the cooling run
RunTwo(cfg) ==
  IF cfg.weather = None THEN {RunOutcome("RuntimeError", "KeyError", None, None, << >>, cfg)}
  ELSE UNION {
         IF h.exc # ""
         THEN {RunOutcome("RuntimeError", h.exc, None, None, <<h.m>>, h.cfg)}
         ELSE { IF c.exc # ""
                THEN RunOutcome("RuntimeError", c.exc, None, None, <<h.m, c.m>>, c.cfg)
                ELSE RunOutcome("", "", h.m.heating_load, c.m.cooling_load, <<h.m, c.m>>, c.cfg)
                : c \in CallSimModel(NewModel(h.cfg), h.cfg, KwCool) }
         : h \in CallSimModel(NewModel(cfg), cfg, KwHeat) }

\* run_model: the set of outcomes of one call
run_model(cfg, use_milp) ==
  IF validate_cfg(cfg) # << >>
  THEN {RunOutcome("ValueError", "", None, None, << >>, cfg)}
  ELSE IF use_milp THEN RunMilp(cfg) ELSE RunTwo(cfg)

\* ------------------------------------------------------------------------
\* The state machine: one configuration dict, one ModelBUEM instance built
\* on it and called directly, and run_model called on the same dict
\* ------------------------------------------------------------------------
VARIABLES
  cfg,      \* the configuration dict
  model,    \* the ModelBUEM instance
  call,     \* the operation that ran last, its arguments and how it ended
  result    \* what the last run_model call left (None before the first)

vars == <<cfg, model, call, result>>

\* the longest weather index
MaxN == 3

Element(id, area) == [id |-> Some(id), area |-> Some(area), U |-> None, surface |-> None]
Component(U, elems) == [U |-> Some(U), b_transmission |-> None, elements |-> elems]

\* n hours, outdoor temperature T_e rising by one degree an hour, no sun
NightWeather(n, T_e, ids) ==
  [ n |-> n,
    T |-> Force([t \in 1..n |-> R(T_e + t - 1)]),
    GHI |-> SeriesZero(n),
    columns |-> {"T", "DNI", "DHI", "GHI"},
    poa_global |-> [id \in ids |-> SeriesZero(n)],
    step |-> R(1) ]

\* a building with one wall, optionally one window and optionally no Doors
\* component; reference area A_ref
Building(A_ref, with_window, with_doors, n, T_e) ==
  LET core == ("Walls" :> Component(R(1000), <<Element("wall_s", R(1))>>))
              @@ ("Windows" :> Component(R(1000),
                     IF with_window THEN <<Element("win_s", R(1))>> ELSE << >>))
              @@ ("Roof" :> Component(R(1000), << >>))
              @@ ("Floor" :> Component(R(1000), << >>))
  IN  [ components |-> Some(IF with_doors
                            THEN core @@ ("Doors" :> Component(R(1000), << >>))
                            ELSE core),
        flat |-> ("A_ref" :> R(A_ref)) @@ ("c_m" :> R(3600)),
        weather |-> Some(NightWeather(n, T_e, {"wall_s", "win_s"})),
        series |-> ("Q_ig" :> Force([t \in 1..n |-> R(1)])),
        thermalClass |-> "medium" ]

\* the buildings the runs start from: a coupled building (A_ref = 1) with
\* and without a window over every horizon and in cold and hot weather; a
\* building of no floor area with a window over every horizon, and without
\* one (no conductance at its surface node) over the longest; a building
\* whose dict lacks the Doors component
Buildings ==
  { Building(1, w, TRUE, n, T_e) : w \in BOOLEAN, n \in 2..MaxN, T_e \in {10, 40} }
  \cup { Building(0, TRUE, TRUE, n, T_e) : n \in 2..MaxN, T_e \in {10, 40} }
  \cup { Building(0, FALSE, TRUE, MaxN, T_e) : T_e \in {10, 40} }
  \cup { Building(1, TRUE, FALSE, 2, 10) }

NoCall == [op |-> "", use_inequality_constraints |-> FALSE, comfort_mode |-> "",
           use_milp |-> FALSE, exc |-> "", status |-> ""]

Init ==
  /\ cfg \in Buildings
  /\ model = NewModel(cfg)
  /\ call = NoCall
  /\ result = None

ComfortModes == {"heating", "cooling", "auto"}

\* model.sim_model(use_inequality_constraints, comfort_mode)
SimModel ==
  \E use_inequality_constraints \in BOOLEAN, comfort_mode \in ComfortModes :
    \E o \in sim_model(model, cfg, use_inequality_constraints, comfort_mode) :
      /\ model' = o.m
      /\ cfg' = o.cfg
      /\ call' = [op |-> "sim_model",
                  use_inequality_constraints |-> use_inequality_constraints,
                  comfort_mode |-> comfort_mode, use_milp |-> FALSE,
                  exc |-> o.exc, status |-> o.status]
      /\ UNCHANGED result

\* run_model(cfg, use_milp=...)
RunModel ==
  \E use_milp \in BOOLEAN :
    \E o \in run_model(cfg, use_milp) :
      /\ result' = Some(o)
      /\ cfg' = o.cfg
      /\ call' = [op |-> "run_model", use_inequality_constraints |-> FALSE,
                  comfort_mode |-> "", use_milp |-> use_milp,
                  exc |-> o.exc, status |-> ""]
      /\ UNCHANGED model

Next == SimModel \/ RunModel

Spec == Init /\ [][Next]_vars

\* ------------------------------------------------------------------------
\* GeoJsonProcessor._validate_array (integration/geojson_processor.py):
\* np.nan_to_num(arr, nan=0.0, ...)
\* ------------------------------------------------------------------------
validate_array(data) == Force([i \in 1..Len(data) |-> IF IsNaN(data[i]) THEN Zero ELSE data[i]])

\* ------------------------------------------------------------------------
\* Properties of sim_model and run_model, under Spec
\* ------------------------------------------------------------------------
Results(m) == <<m.T_air, m.T_m, m.T_sur, m.Q_HC, m.heating_load, m.cooling_load>>

SimCall(c) == c.op = "sim_model" /\ c.comfort_mode \in {"heating", "cooling"}
EqCall(c) == SimCall(c) /\ ~c.use_inequality_constraints
BoundedCall(c) == SimCall(c) /\ c.use_inequality_constraints

\* the equality rows the call that left instance m assembled
EqRowsOf(m, c, mode) == addConstraints(m, c, mode).A_eq[1]

\* C1: for every configuration that passes validate_cfg, run_model with
\* use_milp=False completes a heating run at T_comf_lb and a cooling run at
\* T_comf_ub on two instances and returns the heating series of the first
\* and the cooling series of the second, without an error.
C1_RunModelReturnsBothRuns ==
  (call.op = "run_model" /\ ~call.use_milp /\ validate_cfg(cfg) = << >>) =>
    /\ result # None
    /\ result[1].exc = ""
    /\ Len(result[1].built) = 2
    /\ result[1].built[1].T_set = result[1].built[1].bT_comf_lb
    /\ result[1].built[2].T_set = result[1].built[2].bT_comf_ub
    /\ result[1].heating = result[1].built[1].heating_load
    /\ result[1].cooling = result[1].built[2].cooling_load

\* C2: after a sim_model call that returned, in heating mode every
\* heating_load[i] >= 0 and every cooling_load[i] = 0; in cooling mode every
\* cooling_load[i] <= 0 and every heating_load[i] = 0.
C2_LoadSigns ==
  (SimCall(call) /\ call.exc = "") =>
    \A i \in 1..model.times :
      IF call.comfort_mode = "heating"
      THEN RLe(Zero, model.heating_load[i]) /\ REq(model.cooling_load[i], Zero)
      ELSE RLe(model.cooling_load[i], Zero) /\ REq(model.heating_load[i], Zero)

\* the fixed-setpoint row of hour i
IsHvacRow(row, m, i, n) ==
  /\ row.c = (idx_Q_HC(i, n) :> R(1)) @@ (idx_T_air(i, n) :> TotalTransmission(m.bH))
  /\ row.v = RMul(TotalTransmission(m.bH), m.T_set)

HvacRowsIn(rows, m, n) ==
  \A i \in 0..(n - 1) : \E k \in 1..Len(rows) : IsHvacRow(rows[k], m, i, n)

\* C3: in equality-only mode the system has, for every hour i, the row
\* Q_HC[i] + H_tot*T_air[i] = H_tot*T_set, and every returned solution has
\* Q_HC[i] = H_tot*(T_set - T_air[i]) at every hour.
C3_FixedSetpointRoundTrip ==
  EqCall(call) =>
    /\ HvacRowsIn(EqRowsOf(model, cfg, FALSE), model, model.times)
    /\ call.exc = "" =>
         \A i \in 1..model.times :
           REq(model.Q_HC[i],
               RMul(TotalTransmission(model.bH), RSub(model.T_set, model.T_air[i])))

MassKinds == {"mass initial", "mass dynamics", "mass periodic"}

MassRowsAt(rows, i) == {k \in 1..Len(rows) : rows[k].hour = i /\ rows[k].kind \in MassKinds}

\* the mass rows of hours 0 and n-1 are the initial and the periodic one
MassBoundaryRows(rows, m, n) ==
  /\ \A k \in MassRowsAt(rows, 0) :
       rows[k].c = (idx_T_m(0, n) :> R(1)) /\ rows[k].v = m.T_set
  /\ \A k \in MassRowsAt(rows, n - 1) :
       rows[k].c = ((idx_T_m(0, n) :> R(1)) @@ (idx_T_m(n - 1, n) :> R(-1))) /\ rows[k].v = Zero
  /\ Cardinality(MassRowsAt(rows, 0)) = 1
  /\ Cardinality(MassRowsAt(rows, n - 1)) = 1

\* C4: for every N >= 2 and in both solver modes the equality rows force
\* T_m[0] = T_set and T_m[N-1] = T_m[0], no other mass row is emitted at
\* hours 0 and N-1, and every returned solution has T_m[0] = T_m[N-1].
C4_PeriodicMass ==
  SimCall(call) =>
    /\ MassBoundaryRows(EqRowsOf(model, cfg, call.use_inequality_constraints),
                        model, model.times)
    /\ call.exc = "" => REq(model.T_m[1], model.T_m[model.times])

\* the four rows of hour i: air, surface, one mass row, fixed setpoint
FourRowsAt(rows, i) ==
  /\ Cardinality({k \in 1..Len(rows) : rows[k].hour = i}) = 4
  /\ \A kind \in {"air", "surface", "hvac"} :
       Cardinality({k \in 1..Len(rows) : rows[k].hour = i /\ rows[k].kind = kind}) = 1
  /\ Cardinality(MassRowsAt(rows, i)) = 1

SquareSystem(rows, n) ==
  /\ Len(rows) = 4 * n
  /\ \A i \in 0..(n - 1) : FourRowsAt(rows, i)
  /\ \A k \in 1..Len(rows) : DOMAIN rows[k].c \subseteq 0..(4 * n - 1)

Singular(rows, n_vars) == Len(Rref(Dense(rows, n_vars), 1, 1, n_vars, << >>).pivots) < n_vars

\* C6: in equality-only mode a singular system ends sim_model in an error
\* that assigns no temperature or load result, and no later step replaces
\* values of the result by substitutes.
C6_SingularEndsInError ==
  [][ (EqCall(call') /\ Singular(EqRowsOf(model', cfg', FALSE), model'.n_vars)) =>
        /\ call'.exc # ""
        /\ Results(model') = Results(model)
        /\ validate_array(model'.heating_load) = model'.heating_load
        /\ validate_array(model'.cooling_load) = model'.cooling_load ]_vars

Assigned(m) == \A k \in 1..6 : Len(Results(m)[k]) = m.times

\* C7 as stated: in bounded mode the six result attributes are assigned
\* only when the solver reports the status optimal; for every other status
\* sim_model raises an error that carries the status and the attributes
\* keep the values they had before the call.
C7_AssignsOnlyOnOptimal ==
  [][ (BoundedCall(call') /\ call'.status # "") =>
        IF call'.status = "optimal"
        THEN Assigned(model')
        ELSE /\ call'.exc = "RuntimeError: cvxpy failed"
             /\ Results(model') = Results(model) ]_vars

\* C7, amended: in bounded mode the six result attributes are assigned when
\* the solver reports optimal or optimal_inaccurate; for every other status
\* sim_model raises an error that carries the status and the attributes
\* keep the values they had before the call.
C7_AssignsOnAcceptedStatus ==
  [][ (BoundedCall(call') /\ call'.status # "") =>
        IF call'.status \in {"optimal", "optimal_inaccurate"}
        THEN /\ call'.exc # "RuntimeError: cvxpy failed"
             /\ Assigned(model')
        ELSE /\ call'.exc = "RuntimeError: cvxpy failed"
             /\ call'.status \in CvxStatuses
             /\ Results(model') = Results(model) ]_vars

C7_Witness ==
  /\ BoundedCall(call) /\ call.status = "optimal_inaccurate" /\ call.exc = ""
  /\ Assigned(model)

\* ------------------------------------------------------------------------
\* The envelope: _initEnvelop and _init5R1C, in the order sim_model calls
\* them, on dicts with richer component trees
\* ------------------------------------------------------------------------
\* the most elements a component has
MaxElems == 3

Ids == <<"e1", "e2", "e3", "e4", "e5", "e6">>

\* element k has the id Ids[k] and k square metres
EnvElement(k, with_U) ==
  [id |-> Some(Ids[k]), area |-> Some(R(k)),
   U |-> IF with_U THEN Some(R(1000)) ELSE None, surface |-> None]

\* every list of 1..MaxElems elements; an element may occur twice
ElementLists ==
  UNION { {Force(f) : f \in [1..len -> 1..MaxElems]} : len \in 1..MaxElems }

ComponentVariants == {"U", "U and b", "element U"}

EnvComponent(list, variant) ==
  [ U |-> IF variant = "element U" THEN None ELSE Some(R(1000)),
    b_transmission |-> IF variant = "U and b" THEN Some(Frac(1, 2)) ELSE None,
    elements |-> Force([k \in 1..Len(list) |-> EnvElement(list[k], variant = "element U")]) ]

WindowLists == {<< >>, <<1>>}

\* two hours of sun: 1000 W/m2 on every surface
DayWeather(n, T_e, ids) ==
  [ n |-> n,
    T |-> Force([t \in 1..n |-> R(T_e + t - 1)]),
    GHI |-> Force([t \in 1..n |-> R(1000)]),
    columns |-> {"T", "DNI", "DHI", "GHI"},
    poa_global |-> [id \in ids |-> Force([t \in 1..n |-> R(1000)])],
    step |-> R(1) ]

Envelope(walls, wall_variant, windows, window_variant, sunny) ==
  [ components |-> Some(
        ("Walls" :> EnvComponent(walls, wall_variant))
        @@ ("Windows" :> EnvComponent(windows, window_variant))
        @@ ("Roof" :> Component(R(1000), << >>))
        @@ ("Floor" :> Component(R(1000), << >>))
        @@ ("Doors" :> Component(R(1000), << >>))),
    flat |-> ("A_ref" :> R(1)) @@ ("c_m" :> R(3600)),
    weather |-> Some(IF sunny THEN DayWeather(2, 10, {Ids[k] : k \in 1..MaxElems})
                     ELSE NightWeather(2, 10, {Ids[k] : k \in 1..MaxElems})),
    series |-> ("Q_ig" :> Force([t \in 1..2 |-> R(1)])),
    thermalClass |-> "medium" ]

\* the dicts: every wall list in every variant, with and without a window
Envelopes(suns) ==
  { Envelope(walls, wv, windows, xv, sunny) :
      walls \in ElementLists, wv \in ComponentVariants,
      windows \in WindowLists, xv \in {"U", "element U"}, sunny \in suns }

EnvInit ==
  /\ cfg \in Envelopes(BOOLEAN)
  /\ model = NewModel(cfg)
  /\ call = NoCall
  /\ result = None

\* self._initEnvelop()
InitEnvelop ==
  /\ model' = [model EXCEPT !.component_elements = initEnvelop(cfg).component_elements,
                            !.bU = initEnvelop(cfg).bU,
                            !.bH = initEnvelop(cfg).bH,
                            !.windows = initEnvelop(cfg).windows]
  /\ call' = [NoCall EXCEPT !.op = "_initEnvelop"]
  /\ UNCHANGED <<cfg, result>>

\* the envelope fields of an instance
EnvelopeOf(m) ==
  [component_elements |-> m.component_elements, bU |-> m.bU, bH |-> m.bH,
   windows |-> m.windows]

Init5R1CStep(p) ==
  /\ model' = [model EXCEPT !.bA_f = p.bA_f, !.bA_m = p.bA_m, !.bH_ms = p.bH_ms,
                            !.bC_m = p.bC_m, !.bA_tot = p.bA_tot, !.bH_is = p.bH_is,
                            !.bT_comf_lb = p.bT_comf_lb, !.bT_comf_ub = p.bT_comf_ub,
                            !.irrad_surf = p.irrad_surf,
                            !.profiles = IF p.exc = "" THEN p.profiles ELSE model.profiles]
  /\ cfg' = [cfg EXCEPT !.flat = @ @@ ("c_m" :> p.c_m)]
  /\ call' = [NoCall EXCEPT !.op = "_init5R1C", !.exc = p.exc]
  /\ UNCHANGED result

\* self._init5R1C(), once _initEnvelop has run
Init5R1C ==
  /\ DOMAIN model.bH # {}
  /\ Init5R1CStep(init5R1C(EnvelopeOf(model), cfg))

EnvNext == InitEnvelop \/ Init5R1C

EnvSpec == EnvInit /\ [][EnvNext]_vars

\* ------------------------------------------------------------------------
\* Validation: validate_cfg and run_model on the same dicts
\* ------------------------------------------------------------------------
ValInit ==
  /\ cfg \in Envelopes({FALSE})
  /\ model = NewModel(cfg)
  /\ call = NoCall
  /\ result = None

\* issues = validate_cfg(cfg)
ValidateCfg ==
  /\ result' = Some([issues |-> validate_cfg(cfg)])
  /\ call' = [NoCall EXCEPT !.op = "validate_cfg"]
  /\ UNCHANGED <<cfg, model>>

ValNext == ValidateCfg \/ RunModel

ValSpec == ValInit /\ [][ValNext]_vars

\* ------------------------------------------------------------------------
\* Properties of the envelope, under EnvSpec
\* ------------------------------------------------------------------------
ProfileKeys == {"bQ_sol_Windows", "bQ_sol_Walls", "bQ_sol_Roof", "bQ_sol_Floor",
                "bQ_sol_Opaque"}

AllZero(series) == \A t \in 1..Len(series) : series[t] = Zero

\* the plane-of-array irradiance of every element is zero at every hour
ZeroIrradiance(c) ==
  /\ AllZero(c.weather[1].GHI)
  /\ \A id \in DOMAIN c.weather[1].poa_global : AllZero(c.weather[1].poa_global[id])

After5R1C == call.op = "_init5R1C" /\ call.exc = ""

\* the sum of the areas of the elements at the positions S of a list
RECURSIVE AreaOver(_, _)
AreaOver(elements, S) ==
  IF S = {} THEN Zero
  ELSE LET k == CHOOSE j \in S : TRUE
       IN  RAdd(Get(elements[k].area, Zero), AreaOver(elements, S \ {k}))

AreaOf(comp) == AreaOver(comp.elements, 1..Len(comp.elements))

SkyLoss(m) ==
  IF RLt(Zero, m.bH["Windows"])
  THEN RMul(RMul(RMul(m.bH["Windows"], CONST.h_r), CONST.R_se), CONST.delta_T_sky)
  ELSE RMul(RMul(RMul(RMul(AreaOver(cfg.components[1]["Windows"].elements,
                                    1..Len(cfg.components[1]["Windows"].elements)),
                           CONST.h_r),
                      RDiv(m.bU["Windows"], R(1000))), CONST.R_se), CONST.delta_T_sky)

Orderings(n) == {p \in [1..n -> 1..n] : \A i, j \in 1..n : p[i] = p[j] => i = j}

\* the dict with the elements of one component in the order p
Reordered(c, comp, p) ==
  [c EXCEPT !.components[1][comp].elements =
              Force([k \in 1..Len(@) |-> @[p[k]]])]

AfterEnvelop == DOMAIN model.bH # {}

\* C9: for every structured component with a component-level U, a factor b
\* and a list of elements, _initEnvelop sets the aggregate conductance to
\* U * (sum of the element areas) * b / 1000, and the value is the same for
\* every permutation of the elements.
C9_ConductanceOfComponent ==
  AfterEnvelop =>
    \A comp \in DOMAIN cfg.components[1] :
      cfg.components[1][comp].U # None =>
        /\ model.bH[comp] =
             RDiv(RMul(RMul(cfg.components[1][comp].U[1], AreaOf(cfg.components[1][comp])),
                       Get(cfg.components[1][comp].b_transmission, R(1))),
                  R(1000))
        /\ \A p \in Orderings(Len(cfg.components[1][comp].elements)) :
             initEnvelop(Reordered(cfg, comp, p)).bH[comp] = model.bH[comp]

C9_Witness ==
  /\ AfterEnvelop /\ call.op = "_initEnvelop"
  /\ cfg.components[1]["Walls"].U # None
  /\ cfg.components[1]["Walls"].b_transmission = Some(Frac(1, 2))
  /\ Len(cfg.components[1]["Walls"].elements) = 3
  /\ \A i, j \in 1..3 :
       i # j => cfg.components[1]["Walls"].elements[i].area
                  # cfg.components[1]["Walls"].elements[j].area
  /\ model.bH["Walls"] = R(3)

\* ------------------------------------------------------------------------
\* Properties of the validation, under ValSpec
\* ------------------------------------------------------------------------
\* the places <<component, index>> of the elements of the tree
Places(c) ==
  UNION { {<<comp, k>> : k \in 1..Len(c.components[1][comp].elements)} :
          comp \in DOMAIN c.components[1] }

IdAt(c, pl) == c.components[1][pl[1]].elements[pl[2]].id

DuplicateIds(c) ==
  \E p1, p2 \in Places(c) : p1 # p2 /\ IdAt(c, p1) # None /\ IdAt(c, p1) = IdAt(c, p2)

\* C10: whenever the same element id occurs in two elements of the tree,
\* in one component or in two, with or without a component-level U,
\* validate_cfg reports a duplicate-id issue and run_model raises the
\* configuration error before any model is built.
C10_DuplicateIdsRejected ==
  DuplicateIds(cfg) =>
    /\ call.op = "validate_cfg" =>
         \E k \in 1..Len(result[1].issues) :
           result[1].issues[k].kind = "duplicate element id"
    /\ call.op = "run_model" =>
         result[1].exc = "ValueError" /\ result[1].built = << >>


\* ------------------------------------------------------------------------
\* Faulty configurations: validate_cfg, run_model and sim_model on dicts
\* that differ from a sound two-hour building in one respect
\* ------------------------------------------------------------------------
Base == Building(1, TRUE, TRUE, 2, 10)

ElementIdOf == ("Walls" :> "wall_s") @@ ("Windows" :> "win_s")

\* the areas an element may carry: sound, no area key, zero, negative
Areas == {Some(R(1)), None, Some(Zero), Some(R(-1))}

\* the dict c with the one element of component comp given the area, the U
\* at the component ("U") or at the element ("element U")
WithElement(c, comp, variant, area) ==
  [c EXCEPT !.components = Some([@[1] EXCEPT ![comp] =
     [ U |-> IF variant = "element U" THEN None ELSE Some(R(1000)),
       b_transmission |-> None,
       elements |-> << [ id |-> Some(ElementIdOf[comp]), area |-> area,
                         U |-> IF variant = "element U" THEN Some(R(1000)) ELSE None,
                         surface |-> None ] >> ]])]

ThermalClasses == {"very light", "light", "medium", "heavy", "very heavy"}

\* the dict c with the thermal class cls, with or without the key c_m
WithThermalClass(c, cls, with_c_m) ==
  [c EXCEPT !.thermalClass = cls,
            !.flat = IF with_c_m THEN @ ELSE [k \in (DOMAIN @) \ {"c_m"} |-> @[k]]]

\* the dict c with the weather columns cols
WithColumns(c, cols) == [c EXCEPT !.weather = Some([@[1] EXCEPT !.columns = cols])]

\* the dict c with the series key of len entries
WithSeries(c, key, len) ==
  [c EXCEPT !.series = (key :> Force([t \in 1..len |-> Frac(1, 2)])) @@ @]

InputSeries == {"elecLoad", "Q_ig", "occ_nothome", "occ_sleeping"}

\* the dict c with one more component in its tree, of the given name, with
\* U = 1000 W/m2K and one element of 1 m2 (a conductance of 1 kW/K), in the
\* dark like the rest of the building
WithComponent(c, name, id) ==
  [c EXCEPT !.components = Some((name :> Component(R(1000), <<Element(id, R(1))>>)) @@ @[1]),
            !.weather = Some([@[1] EXCEPT !.poa_global =
                                (id :> SeriesZero(c.weather[1].n)) @@ @])]

\* a single zone with walls only: U = 1 W/m2K on 100 m2, no window, no
\* ventilation, no solar and no internal gain, 0 degC outdoors at every
\* one of the n hours
WallsOnly(n) ==
  [ components |-> Some(("Walls" :> Component(R(1), <<Element("wall_s", R(100))>>))
                        @@ ("Windows" :> Component(R(1), << >>))
                        @@ ("Roof" :> Component(R(1), << >>))
                        @@ ("Floor" :> Component(R(1), << >>))
                        @@ ("Doors" :> Component(R(1), << >>))),
    flat |-> ("A_ref" :> R(1)) @@ ("c_m" :> R(3600)),
    weather |-> Some([NightWeather(n, 0, {"wall_s"}) EXCEPT !.T = SeriesZero(n)]),
    series |-> ("Q_ig" :> SeriesZero(n)),
    thermalClass |-> "medium" ]

\* the dict c in the sun: 1000 W/m2 on the horizontal, 500 W/m2 in the
\* plane of every element
InTheSun(c) ==
  [c EXCEPT !.weather = Some([@[1] EXCEPT
      !.GHI = Force([t \in 1..c.weather[1].n |-> R(1000)]),
      !.poa_global = [id \in DOMAIN @ |-> Force([t \in 1..c.weather[1].n |-> R(500)])]])]

\* the dict c whose one wall element has no id
WithoutWallId(c) ==
  [c EXCEPT !.components = Some([@[1] EXCEPT !["Walls"].elements =
      << [id |-> None, area |-> Some(R(1)), U |-> None, surface |-> None] >>])]

Configs ==
  { WithElement(Base, comp, variant, area) :
      comp \in DOMAIN ElementIdOf, variant \in {"U", "element U"}, area \in Areas }
  \cup { WithThermalClass(Base, cls, with_c_m) :
           cls \in {"medium", "heavy", "granite"}, with_c_m \in BOOLEAN }
  \cup { WithColumns(Base, cols) : cols \in {{"T", "DHI", "GHI"}, {"T"}} }
  \cup { WithSeries(Base, key, len) : key \in InputSeries, len \in 1..3 }
  \cup { WithComponent(Building(1, TRUE, TRUE, n, 10), "Skylights", "sky_1") : n \in 2..3 }
  \cup { WallsOnly(n) : n \in 2..3 }
  \cup { InTheSun(Base), InTheSun(WithoutWallId(Base)) }

CfgInit ==
  /\ cfg \in Configs
  /\ model = NewModel(cfg)
  /\ call = NoCall
  /\ result = None

\* ModelBUEM(cfg).sim_model(use_inequality_constraints, comfort_mode): a
\* new instance on the dict, and one call on it
NewSimModel ==
  \E use_inequality_constraints \in BOOLEAN, comfort_mode \in ComfortModes :
    \E o \in sim_model(NewModel(cfg), cfg, use_inequality_constraints, comfort_mode) :
      /\ model' = o.m
      /\ cfg' = o.cfg
      /\ call' = [op |-> "sim_model",
                  use_inequality_constraints |-> use_inequality_constraints,
                  comfort_mode |-> comfort_mode, use_milp |-> FALSE,
                  exc |-> o.exc, status |-> o.status]
      /\ UNCHANGED result

\* ------------------------------------------------------------------------
\* The HTTP entry points (apis/model_api.py), on the dict the payload
\* converts to.  A response is its status code, its error field ("" when
\* there is none) and how the run under it ended.
\* ------------------------------------------------------------------------
Response(status, error, exc) == [status |-> status, error |-> error, exc |-> exc]

\* POST /api/run (lines 24-97) and POST /api/process with a plain
\* configuration (lines 139-196): validate, run, map the exception
PlainResponses(c, use_milp) ==
  IF validate_cfg(c) # << >> THEN {Response(400, "validation_failed", "")}
  ELSE { IF o.exc = "" THEN Response(200, "", "")
         ELSE IF o.exc = "ValueError" THEN Response(400, "validation_failed", o.exc)
         ELSE Response(500, o.exc, o.exc)
         : o \in run_model(c, use_milp) }

\* GeoJsonProcessor.process on a payload of one feature (lines 71-158):
\* every exception of the feature is caught and written into the feature
FeatureResponses(c, use_milp) ==
  { Response(200, IF o.exc = "" THEN "" ELSE "processing_error", o.exc)
    : o \in run_model(c, use_milp) }

\* POST /api/process with GeoJSON (lines 125-137)
GeoResponses(c, use_milp) == FeatureResponses(c, use_milp)

EntryPaths == {"/api/run", "/api/process", "/api/process geojson"}

Responses(path, c, use_milp) ==
  IF path = "/api/process geojson" THEN GeoResponses(c, use_milp)
  ELSE PlainResponses(c, use_milp)

\* one request to an entry point
ApiRequest ==
  \E path \in EntryPaths, use_milp \in BOOLEAN :
    \E r \in Responses(path, cfg, use_milp) :
      /\ result' = Some(r)
      /\ call' = [NoCall EXCEPT !.op = path, !.use_milp = use_milp, !.exc = r.exc]
      /\ UNCHANGED <<cfg, model>>

CfgNext == ValidateCfg \/ RunModel \/ NewSimModel

\* the entry paths on the same dicts: run_model and the three routes
ApiNext == ValidateCfg \/ RunModel \/ ApiRequest

ApiSpec == CfgInit /\ [][ApiNext]_vars

CfgSpec == CfgInit /\ [][CfgNext]_vars

\* ------------------------------------------------------------------------
\* Properties of the handling of faulty configurations, under CfgSpec
\* ------------------------------------------------------------------------
Reported == call.op = "validate_cfg" => result[1].issues # << >>

\* run_model raised the configuration error and built no instance
Rejected == call.op = "run_model" => (result[1].exc = "ValueError" /\ result[1].built = << >>)

\* some element of the tree has no area or an area <= 0
BadArea(c) ==
  \E pl \in Places(c) :
    LET area == c.components[1][pl[1]].elements[pl[2]].area
    IN  area = None \/ RLe(area[1], Zero)

\* C11: whenever an element of the tree has an area that is missing or
\* <= 0, in any component and with or without a component-level U,
\* validate_cfg reports an issue and run_model raises the configuration
\* error before the envelope is parsed.
C11_BadAreaRejected == BadArea(cfg) => (Reported /\ Rejected)


\* the weather table lacks one of the irradiance series
MissingIrradiance(c) == ~(IrradianceColumns \subseteq c.weather[1].columns)

\* C12: if the weather table lacks any of DNI, DHI, GHI, the run is rejected
\* with the configuration error (the error kind of a validation failure),
\* before any solar gain profile or constraint row is built, and no
\* irradiance value stands in for the missing series.
C12_MissingIrradianceRejected ==
  MissingIrradiance(cfg) =>
    /\ Reported
    /\ Rejected
    /\ call.op = "sim_model" =>
         /\ call.exc = "ValueError"
         /\ model.profiles = << >>
         /\ model.irrad_surf = << >>
         /\ model.n_vars = 0


\* an input series has another length than the weather index
MismatchedSeries(c) ==
  \E key \in InputSeries \cap DOMAIN c.series : Len(c.series[key]) # c.weather[1].n

\* C13: if an input series (elecLoad, Q_ig, occ_nothome, occ_sleeping) has
\* a length different from that of the weather index, validation reports
\* the mismatch as a configuration error, before any constraint is
\* assembled or any solve is attempted.
C13_MismatchedSeriesRejected ==
  MismatchedSeries(cfg) =>
    /\ Reported
    /\ Rejected
    /\ call.op = "sim_model" => (call.exc = "ValueError" /\ model.n_vars = 0)


\* C14: on every entry path (run_model, POST /api/run, POST /api/process
\* with a plain configuration or with GeoJSON) a configuration error is
\* reported as bad input (ValueError, HTTP 400) and any other failure of the
\* run as internal failure (RuntimeError, HTTP 500), never both under one
\* error kind or status code.
C14_ErrorKindsKeptApart ==
  /\ call.op = "run_model" =>
       /\ validate_cfg(cfg) # << >> => result[1].exc = "ValueError"
       /\ (validate_cfg(cfg) = << >> /\ result[1].exc # "") => result[1].exc = "RuntimeError"
  /\ call.op \in EntryPaths =>
       /\ validate_cfg(cfg) # << >> => result[1].status = 400
       /\ (validate_cfg(cfg) = << >> /\ result[1].exc # "") => result[1].status = 500


\* C15: a configuration whose thermalClass is none of the five classes of
\* the table is rejected by validation before any solve, and the instance
\* never derives A_m or C_m from a fallback value for it.
C15_UnknownClassRejected ==
  cfg.thermalClass \notin ThermalClasses =>
    /\ Reported
    /\ Rejected
    /\ call.op = "sim_model" => (model.bA_m = None /\ model.bC_m = None)


\* C16: constructing a ModelBUEM from a dict and calling sim_model on it,
\* in either solver mode and either comfort mode, leaves the caller's dict
\* unchanged: no key is added, removed or reassigned.
C16_SimModelLeavesCfg ==
  [][ call'.op = "sim_model" => cfg' = cfg ]_vars


\* ------------------------------------------------------------------------
\* Two runs on one dict, interleaved
\*
\* main.py lines 80-86 build one instance per comfort mode from the same
\* dict; here the two calls of sim_model run as two threads.  In this
\* specification model holds the two instances, call holds each thread's
\* position and locals, and cfg is the dict both instances keep
\* (self.cfg = cfg, line 63).  The only key of the dict a run assigns is
\* "c_m" (lines 230-232), so the test, the assignment and the read of that
\* key are steps of their own; every other read of the dict is of a key no
\* run assigns, and the rest of the run is one step.
\* ------------------------------------------------------------------------
Threads == {"heating", "cooling"}

\* the instance a thread works on: model_heat, model_cool (main.py 80, 84)
InstanceOf(t) == t

\* a value that would depend on what the dict holds when the assignment
\* runs: twice the value a run that came first has left there
RunningSpecificHeat(c) ==
  IF HasKey(c.flat, "c_m") THEN RMul(c.flat["c_m"], R(2)) ELSE SpecificHeat(c)

\* line 231: the value assigned to cfg["c_m"], from the tables of the class
ClassSpecificHeat(c) ==
  SpecificHeat([c EXCEPT !.flat = [k \in (DOMAIN @) \ {"c_m"} |-> @[k]]])

\* the dict with a time index of the given step (hours)
WithStep(c, step) == [c EXCEPT !.weather = Some([@[1] EXCEPT !.step = step])]

\* the dicts the two runs are given: a building over three hours, so that
\* the system has a mass-dynamics row, the one row C_m enters (lines
\* 594-595), in cold and hot weather, with and without the key "c_m".  The
\* class "medium" gives C_m = 175 / 3600 kWh/K; with a step of 175 s the
\* coefficient C_m / step is 1.
SharedConfigs ==
  {WithStep(WithThermalClass(Building(1, TRUE, TRUE, 3, T_e), "medium", with_c_m),
            Frac(175, 3600)) :
     T_e \in {10, 40}, with_c_m \in BOOLEAN}

ThreadStart(c, use_inequality_constraints) ==
  [pc |-> "start", absent |-> FALSE, c_m |-> None, exc |-> "",
   use_inequality_constraints |-> use_inequality_constraints, given |-> c]

ThreadInit ==
  /\ cfg \in SharedConfigs
  /\ model = [i \in Threads |-> None]
  /\ \E use_inequality_constraints \in BOOLEAN :
       call = [t \in Threads |-> ThreadStart(cfg, use_inequality_constraints)]
  /\ result = None

\* ModelBUEM(cfg_dict): __init__, lines 63-103
Construct ==
  \E t \in Threads :
    /\ call[t].pc = "start"
    /\ model' = [model EXCEPT ![InstanceOf(t)] = NewModel(cfg)]
    /\ call' = [call EXCEPT ![t].pc = "check"]
    /\ UNCHANGED <<cfg, result>>

\* sim_model up to line 230: if "c_m" not in self.cfg
CheckCm ==
  \E t \in Threads :
    /\ call[t].pc = "check"
    /\ call' = [call EXCEPT ![t].absent = ~HasKey(cfg.flat, "c_m"),
                            ![t].pc = IF HasKey(cfg.flat, "c_m") THEN "read" ELSE "write"]
    /\ UNCHANGED <<cfg, model, result>>

\* line 231: self.cfg["c_m"] = ...
WriteCm ==
  \E t \in Threads :
    /\ call[t].pc = "write"
    /\ cfg' = [cfg EXCEPT !.flat = ("c_m" :> ClassSpecificHeat(cfg)) @@ @]
    /\ call' = [call EXCEPT ![t].pc = "read"]
    /\ UNCHANGED <<model, result>>

\* line 232: float(self.cfg["c_m"])
ReadCm ==
  \E t \in Threads :
    /\ call[t].pc = "read"
    /\ call' = [call EXCEPT ![t].c_m = Some(cfg.flat["c_m"]), ![t].pc = "solve"]
    /\ UNCHANGED <<cfg, model, result>>

\* the dict as thread t's run has read it: the keys no run assigns, and
\* the "c_m" it read at line 232
DictRead(t) == [cfg EXCEPT !.flat = ("c_m" :> call[t].c_m[1]) @@ @]

\* the rest of sim_model, lines 232-780
Solve ==
  \E t \in Threads :
    /\ call[t].pc = "solve"
    /\ \E o \in sim_model(model[InstanceOf(t)], DictRead(t),
                          call[t].use_inequality_constraints, t) :
         /\ model' = [model EXCEPT ![InstanceOf(t)] = o.m]
         /\ call' = [call EXCEPT ![t].exc = o.exc, ![t].pc = "done"]
    /\ UNCHANGED <<cfg, result>>

ThreadNext == Construct \/ CheckCm \/ WriteCm \/ ReadCm \/ Solve

ThreadSpec == ThreadInit /\ [][ThreadNext]_vars

\* the outcomes of the run of thread t executed alone on the dict as given
Alone(t) ==
  sim_model(NewModel(call[t].given), call[t].given,
            call[t].use_inequality_constraints, t)

\* C17: when the heating run and the cooling run execute concurrently on
\* two instances built from the same dict, then whatever the interleaving
\* of their steps, each run ends as the same run executed alone can end:
\* with the same exception or none, and the same T_air, T_m, T_sur, Q_HC,
\* heating_load and cooling_load.
C17_RunsIndependent ==
  \A t \in Threads :
    call[t].pc = "done" =>
      \E a \in Alone(t) :
        /\ a.exc = call[t].exc
        /\ Results(a.m) = Results(model[InstanceOf(t)])

\* both runs found the key absent and both assigned it, and both solved
C17_Witness ==
  /\ \A t \in Threads : call[t].pc = "done" /\ call[t].absent /\ call[t].exc = ""
  /\ \A t \in Threads : model[InstanceOf(t)].heating_load # None
  /\ Results(model[InstanceOf("heating")]) # Results(model[InstanceOf("cooling")])


\* ------------------------------------------------------------------------
\* Failing diagnostics
\*
\* After the solve, _readResults prints two sums (lines 801, 803), calls
\* diagnostics_solar_components (line 810) and prints what it returned
\* (line 811).  None of these statements is inside a try, neither there
\* nor in sim_model (line 779), and diagnostics_solar_components (lines
\* 813-873) has no handler of its own: an exception raised by one of them
\* leaves sim_model.  The calls below are made in an environment in which
\* any of them may raise.
\* ------------------------------------------------------------------------
Diagnostics == {"print", "diagnostics_solar_components"}

\* the outcome of a call that ended as o when the diagnostics in failing
\* raise: they run only once the results and the frame are assigned
Diagnose(o, failing) ==
  IF o.exc = "" /\ failing # {}
  THEN Outcome(o.m, o.cfg, "DiagnosticError", o.status)
  ELSE o

DiagInit ==
  /\ cfg \in { Building(1, w, TRUE, 2, T_e) : w \in BOOLEAN, T_e \in {10, 40} }
  /\ model = NewModel(cfg)
  /\ call = NoCall
  /\ result = None

\* ModelBUEM(cfg).sim_model(...) while the diagnostics in failing raise
DiagnosedSimModel ==
  \E use_inequality_constraints \in BOOLEAN, comfort_mode \in ComfortModes :
    \E s \in sim_model(NewModel(cfg), cfg, use_inequality_constraints, comfort_mode),
       failing \in SUBSET Diagnostics :
      LET o == Diagnose(s, failing)
      IN  /\ model' = o.m
          /\ cfg' = o.cfg
          /\ call' = [op |-> "sim_model",
                      use_inequality_constraints |-> use_inequality_constraints,
                      comfort_mode |-> comfort_mode, use_milp |-> FALSE,
                      exc |-> o.exc, status |-> o.status]
          /\ UNCHANGED result

DiagNext == DiagnosedSimModel \/ RunModel

DiagSpec == DiagInit /\ [][DiagNext]_vars

\* C18: a failure inside a printing or plotting diagnostic never makes a
\* run whose solve succeeded end in an error: a sim_model call that has
\* assigned the six result attributes returns normally, so that run_model
\* gets the heating and the cooling series.
C18_DiagnosticsSwallowed ==
  (call.op = "sim_model" /\ Assigned(model)) => call.exc = ""


\* line 410: the total calcDesignHeatLoad computes, the sum over every key
\* of the conductance table
RECURSIVE SumOriginal(_, _)
SumOriginal(bH, keys) ==
  IF keys = {} THEN Zero
  ELSE LET c == CHOOSE x \in keys : TRUE
       IN  RAdd(bH[c], SumOriginal(bH, keys \ {c}))

DesignTransmission(bH) == SumOriginal(bH, DOMAIN bH)

\* lines 403-412
calcDesignHeatLoad(m, c) ==
  LET bH == IF m.bH = << >> THEN initEnvelop(c).bH ELSE m.bH
      deltaT == RSub(Frac(22917, 1000), DictGet(c.flat, "design_T_min", Zero))
  IN  RMul(DesignTransmission(bH), deltaT)

\* C19: the H_tot of the mass-node rows and of the fixed-setpoint rows is
\* the sum of the conductances of every entry of the table _initEnvelop
\* builds (every component of the tree, whatever its name, and
\* Ventilation), the total calcDesignHeatLoad computes: after a sim_model
\* call in equality mode that returned, every fixed-setpoint row reads
\* Q_HC[i] + H*T_air[i] = H*T_set and every mass-dynamics row carries
\* -C_m/step - H_ms - H on T_m[i] and -H*T_e on its right-hand side, with H
\* that sum.
C19_TotalOverEveryComponent ==
  (call.op = "sim_model" /\ call.exc = "" /\ ~call.use_inequality_constraints) =>
    LET n    == model.times
        rows == EqRowsOf(model, cfg, FALSE)
        H    == DesignTransmission(model.bH)
    IN  /\ calcDesignHeatLoad(model, cfg) = RMul(H, Frac(22917, 1000))
        /\ \A k \in 1..Len(rows) :
             /\ rows[k].kind = "hvac" =>
                  /\ rows[k].c[idx_T_air(rows[k].hour, n)] = H
                  /\ rows[k].v = RMul(H, model.T_set)
             /\ rows[k].kind = "mass dynamics" =>
                  /\ rows[k].c[idx_T_m(rows[k].hour, n)] =
                       RSub(RSub(RNeg(RDiv(model.bC_m, model.stepSize)), model.bH_ms), H)
                  /\ rows[k].v = RNeg(RMul(H, cfg.weather[1].T[rows[k].hour + 1]))


\* ------------------------------------------------------------------------
\* The rows of bounded mode, under Spec
\* ------------------------------------------------------------------------
\* the coefficients and right-hand sides of the rows at positions lo..hi
RowsAt(rows, lo, hi) == { <<rows[k].c, rows[k].v>> : k \in lo..hi }

\* the six rows that bound hour i: x <= max as x <= max, x >= min as -x <= -min
SixBounds(i, n) ==
  { <<(idx_T_air(i, n) :> R(1)),  R(30)>>,  <<(idx_T_air(i, n) :> R(-1)), R(-15)>>,
    <<(idx_T_sur(i, n) :> R(1)),  R(35)>>,  <<(idx_T_sur(i, n) :> R(-1)), R(-10)>>,
    <<(idx_T_m(i, n) :> R(1)),    R(30)>>,  <<(idx_T_m(i, n) :> R(-1)),   R(-15)>> }

BoundedSystemOf(m, c) == addConstraints(m, c, TRUE)

FixedSetpointSolution(m, c) == spsolve(EqRowsOf(m, c, FALSE), 4 * m.times)

\* x satisfies every row of rows, A x <= b
WithinRows(rows, x) == \A k \in 1..Len(rows) : RLe(Dot(rows[k], x), rows[k].v)

\* the fixed-setpoint solution of the instance satisfies every bound row
SetpointWithinBounds(m, c) ==
  WithinRows(BoundedSystemOf(m, c).A_ineq[1], FixedSetpointSolution(m, c))

C22_SteadyStateLoad ==
  (cfg \in {WallsOnly(n) : n \in 2..3} /\ call.op = "sim_model"
     /\ ~call.use_inequality_constraints /\ call.comfort_mode = "heating") =>
    /\ call.exc = ""
    /\ model.T_set = R(21)
    /\ \A i \in 1..model.times :
         model.Q_HC[i] = RMul(TotalTransmission(model.bH), R(21))


\* ------------------------------------------------------------------------
\* The gains in the right-hand sides, under EnvSpec
\* ------------------------------------------------------------------------
\* the instance as sim_model has it when it calls _addConstraints
Assembling(m, c) == SimSetup(m, c, "heating")

\* the instance and the dict without any gain
NoGainProfiles(m) ==
  [m EXCEPT !.profiles = [k \in DOMAIN @ |-> SeriesZero(m.times)]]
NoGainSeries(c) == [c EXCEPT !.series = << >>]

\* C23: at every hour the right-hand side of the air row carries
\* Q_air = internal gain + 0.5 * window solar gain and that of the surface
\* row Q_surface = opaque solar gain + 0.5 * window solar gain, so that
\* Q_air + Q_surface = internal gain + window gain + opaque gain, and no
\* gain enters the mass row (it is the row of the same building without
\* gains).
C23_GainsSplit ==
  After5R1C =>
    LET n    == model.times
        m    == Assembling(model, cfg)
        rows == EqRowsOf(m, cfg, FALSE)
        H_ve == model.bH["Ventilation"]
        H_w  == DictGet(model.bH, "Windows", Zero)
    IN  \A i \in 0..(n - 1) :
          LET T_e   == cfg.weather[1].T[i + 1]
              Q_ia  == InternalGain(cfg, i, n)
              Q_win == model.profiles.bQ_sol_Windows[i + 1]
              Q_opq == model.profiles.bQ_sol_Opaque[i + 1]
              Q_air == RSub(rows[4 * i + 1].v, RMul(H_ve, T_e))
              Q_sur == RSub(rows[4 * i + 2].v, RMul(H_w, T_e))
          IN  /\ Q_air = RAdd(Q_ia, RMul(Frac(1, 2), Q_win))
              /\ Q_sur = RAdd(Q_opq, RMul(Frac(1, 2), Q_win))
              /\ RAdd(Q_air, Q_sur) = RAdd(RAdd(Q_ia, Q_win), Q_opq)
              /\ rows[4 * i + 3] =
                   MassRow(NoGainProfiles(m), NoGainSeries(cfg), i, n)

\* a building in the sun with a window gain, an opaque gain and an
\* internal gain at its first hour
C23_Witness ==
  /\ After5R1C
  /\ model.profiles.bQ_sol_Windows[1] \notin {Zero, NaN}
  /\ model.profiles.bQ_sol_Opaque[1] \notin {Zero, NaN}
  /\ InternalGain(cfg, 0, model.times) # Zero
  /\ RLt(Zero, cfg.weather[1].GHI[1])


\* ------------------------------------------------------------------------
\* ModelBUEM._initEnvelop, legacy branch (lines 162-186): no component
\* tree, flat keys only
\* ------------------------------------------------------------------------
LegacyComponents == <<"Walls", "Roof", "Floor", "Windows", "Ventilation">>

\* lines 168-177: the while loop over the keys A_<comp>_1, A_<comp>_2, ...
RECURSIVE LegacyNumbered(_, _, _)
LegacyNumbered(c, comp, i) ==
  LET key == "A_" \o comp \o "_" \o ToString(i)
  IN  IF HasKey(c.flat, key)
      THEN << [id |-> Some(comp \o "_" \o ToString(i)), area |-> DictGet(c.flat, key, R(100)),
               U |-> None, surface |-> None] >> \o LegacyNumbered(c, comp, i + 1)
      ELSE << >>

\* lines 164-180: the elements of a component; when only the key A_<comp>
\* is there, key is still A_<comp>_1, which is absent, and get returns 100.0
LegacyElements(c, comp) ==
  LET numbered == LegacyNumbered(c, comp, 1)
  IN  IF numbered = << >> /\ HasKey(c.flat, "A_" \o comp)
      THEN << [id |-> Some(comp \o "_1"), area |-> DictGet(c.flat, "A_" \o comp \o "_1", R(100)),
               U |-> None, surface |-> None] >>
      ELSE numbered

\* lines 163-186: the loop over the components; float(None) raises
\* TypeError when the key U_<comp> is absent, after component_elements got
\* the entry of that component
RECURSIVE LegacyLoop(_, _, _)
LegacyLoop(c, k, env) ==
  IF k > Len(LegacyComponents) THEN env
  ELSE LET comp  == LegacyComponents[k]
           elems == LegacyElements(c, comp)
           ce    == (comp :> elems) @@ env.component_elements
       IN  IF ~HasKey(c.flat, "U_" \o comp)
           THEN [env EXCEPT !.exc = "TypeError", !.component_elements = ce]
           ELSE LegacyLoop(c, k + 1,
                  [env EXCEPT !.component_elements = ce,
                              !.bU = (comp :> c.flat["U_" \o comp]) @@ @,
                              !.bH = (comp :> Conductance(c.flat["U_" \o comp], TotalArea(elems),
                                                          DictGet(c.flat, "b_Transmission_" \o comp \o "_1", R(1))))
                                     @@ @])

\* the envelope fields after _initEnvelop on a dict without a tree: exc is
\* the exception raised, "" when the call returned (lines 189-203 then set
\* the windows and the ventilation conductance)
initEnvelopLegacy(c) ==
  LET env == LegacyLoop(c, 1, [exc |-> "", component_elements |-> << >>,
                               bU |-> << >>, bH |-> << >>, windows |-> << >>])
  IN  IF env.exc # "" THEN env
      ELSE [env EXCEPT !.windows = DictGet(env.component_elements, "Windows", << >>),
                       !.bH = ("Ventilation" :> VentilationConductance(c)) @@ @]

\* the flat keys _initEnvelop reads for U, and the area keys of the walls
LegacyUKeys == {"U_Walls", "U_Roof", "U_Floor", "U_Windows", "U_Ventilation"}
LegacyAreaKeys == {"A_Walls_1", "A_Walls_2", "A_Walls", "A_Roof_1"}

\* a dict without a tree: the keys in validated with U = 1000, the keys
\* in ukeys with U = 2000, the area keys in akeys with 3 m2 each, and
\* b_Transmission_Walls_1 = 1/2
LegacyCfg(validated, ukeys, akeys) ==
  [ components |-> None,
    flat |-> [k \in validated |-> R(1000)] @@ [k \in ukeys |-> R(2000)]
             @@ [k \in akeys |-> R(3)]
             @@ ("b_Transmission_Walls_1" :> Frac(1, 2))
             @@ ("A_ref" :> R(1)) @@ ("c_m" :> R(3600)),
    weather |-> Some(NightWeather(2, 10, {})),
    series |-> ("Q_ig" :> Force([t \in 1..2 |-> R(1)])),
    thermalClass |-> "medium" ]

LegacyConfigs ==
  { LegacyCfg(validated, ukeys, akeys) :
      validated \in { {LegacyKeys[k] : k \in 1..5}, {LegacyKeys[k] : k \in 2..5} },
      ukeys \in {LegacyUKeys, LegacyUKeys \ {"U_Ventilation"}, LegacyUKeys \ {"U_Walls"}, {}},
      akeys \in SUBSET LegacyAreaKeys }

LegacyInit ==
  /\ cfg \in LegacyConfigs
  /\ model = NewModel(cfg)
  /\ call = NoCall
  /\ result = None

\* self._initEnvelop() on a dict without a tree
InitEnvelopLegacy ==
  LET env == initEnvelopLegacy(cfg)
  IN  /\ model' = [model EXCEPT !.component_elements = env.component_elements,
                                !.bU = env.bU, !.bH = env.bH, !.windows = env.windows]
      /\ call' = [NoCall EXCEPT !.op = "_initEnvelop", !.exc = env.exc]
      /\ UNCHANGED <<cfg, result>>

LegacyNext == ValidateCfg \/ InitEnvelopLegacy

LegacySpec == LegacyInit /\ [][LegacyNext]_vars

\* the configured area keys of a component, in the order of their elements
RECURSIVE NumberedAreaKeys(_, _, _)
NumberedAreaKeys(c, comp, i) ==
  IF HasKey(c.flat, "A_" \o comp \o "_" \o ToString(i))
  THEN << "A_" \o comp \o "_" \o ToString(i) >> \o NumberedAreaKeys(c, comp, i + 1)
  ELSE << >>

AreaKeysOf(c, comp) ==
  IF NumberedAreaKeys(c, comp, 1) # << >> THEN NumberedAreaKeys(c, comp, 1)
  ELSE IF HasKey(c.flat, "A_" \o comp) THEN << "A_" \o comp >>
  ELSE << >>

\* C24: when no tree is supplied and the flat legacy keys pass
\* validate_cfg, _initEnvelop completes without error and builds, for each
\* component, one element per configured area key carrying the configured
\* area, and an aggregate conductance of U * (sum of those areas) * b / 1000.
C24_LegacyEnvelope ==
  (cfg.components = None /\ validate_cfg(cfg) = << >> /\ call.op = "_initEnvelop") =>
    /\ call.exc = ""
    /\ \A comp \in {"Walls", "Roof", "Floor", "Windows"} :
         LET keys  == AreaKeysOf(cfg, comp)
             elems == model.component_elements[comp]
         IN  /\ Len(elems) = Len(keys)
             /\ \A k \in 1..Len(keys) : elems[k].area = cfg.flat[keys[k]]
             /\ model.bH[comp] =
                  Conductance(model.bU[comp],
                              RSumSeq(Force([k \in 1..Len(keys) |-> cfg.flat[keys[k]]])),
                              DictGet(cfg.flat, "b_Transmission_" \o comp \o "_1", R(1)))


\* the column of the irradiance table an element's gain is to be computed
\* from: that of the surface a window references, else the element's own
ColumnOf(e, table) ==
  table[IF e.surface # None /\ e.surface[1] \in DOMAIN table THEN e.surface[1] ELSE e.id[1]]

\* the sum over the elements of factor * area * column
GainFromTable(elems, factor, table, n) ==
  SeriesSum(Force([k \in 1..Len(elems) |->
              SeriesScale(RMul(elems[k].area, factor), ColumnOf(elems[k], table))]), n)

\* C25: every solar-gain term of a wall, roof or window element is
\* computed from a series of the irradiance table, the element's own
\* column or, for a window that references a parent surface, the column of
\* that surface; the table holds one column of N hourly values for every
\* element of the tree; no other series is substituted.
C25_GainsFromTable ==
  (call.op = "sim_model" /\ model.profiles # << >>) =>
    LET n     == model.times
        table == model.irrad_surf
        tree  == model.component_elements
        g     == RMul(RMul(DictGet(cfg.flat, "g_gl_n_Window", Frac(1, 2)),
                           RSub(R(1), DictGet(cfg.flat, "F_f", Frac(3, 5)))),
                      DictGet(cfg.flat, "F_w", R(1)))
    IN  /\ \A comp \in DOMAIN tree : \A k \in 1..Len(tree[comp]) :
             /\ tree[comp][k].id # None
             /\ tree[comp][k].id[1] \in DOMAIN table
             /\ Len(table[tree[comp][k].id[1]]) = n
        /\ model.profiles.bQ_sol_Walls =
             GainFromTable(DictGet(tree, "Walls", << >>),
                           RMul(CONST.alpha, DictGet(cfg.flat, "F_sh_vert", R(1))), table, n)
        /\ model.profiles.bQ_sol_Roof =
             GainFromTable(DictGet(tree, "Roof", << >>),
                           RMul(CONST.alpha, DictGet(cfg.flat, "F_sh_hor", R(1))), table, n)
        /\ SeriesShift(model.profiles.bQ_sol_Windows, ThermalRadWin(EnvelopeOf(model), cfg)) =
             GainFromTable(model.windows, g, table, n)


\* ------------------------------------------------------------------------
\* CfgBuilding  (config/cfg_building.py)
\*
\* A value is [kind, v, index]: kind is the Python type ("float", "bool",
\* "str", "list", "Series", "dict", "DataFrame"), v the numbers it holds
\* and index the length of its datetime index (0 when it has none).  In
\* this specification cfg is the input dict, a function from keys to
\* values, and result what to_cfg_dict or to_json returned.
\* ------------------------------------------------------------------------
Value(kind, v, index) == [kind |-> kind, v |-> v, index |-> index]

\* the hours of the default weather file (cfg_attribute.py line 29)
DefaultHours == 3

\* cfg_attribute.py lines 66-162: one attribute of every category and type
\* the builder treats differently
ATTRIBUTE_SPECS ==
  ("weather" :> [category |-> "weather", type |-> "dataframe",
                 default |-> Value("DataFrame", Force([t \in 1..DefaultHours |-> R(10)]), DefaultHours)])
  @@ ("elecLoad" :> [category |-> "fixed", type |-> "series",
                     default |-> Value("Series", Force([t \in 1..DefaultHours |-> Frac(1, 2)]), DefaultHours)])
  @@ ("A_ref" :> [category |-> "fixed", type |-> "float",
                  default |-> Value("float", <<R(2064)>>, 0)])
  @@ ("ventControl" :> [category |-> "boolean", type |-> "bool",
                        default |-> Value("bool", <<Zero>>, 0)])
  @@ ("components" :> [category |-> "other", type |-> "object",
                       default |-> Value("dict", <<R(1227), R(2000)>>, 0)])

\* _get_spec_keys_by_category (lines 28-30)
get_spec_keys_by_category(category) ==
  {k \in DOMAIN ATTRIBUTE_SPECS : ATTRIBUTE_SPECS[k].category = category}

\* _series_to_list, _df_to_serializable (lines 12-25)
series_to_list(s) == Value("list", s.v, 0)
df_to_serializable(df) == Value("dict", df.v, df.index)

\* lines 248-272: _ensure_and_normalize_input
ensure_and_normalize_input(data) ==
  [name \in DOMAIN data \cup DOMAIN ATTRIBUTE_SPECS |->
     IF name \in DOMAIN data THEN data[name]
     ELSE LET spec == ATTRIBUTE_SPECS[name]
          IN  IF spec.type = "dataframe" /\ spec.default.kind = "DataFrame"
              THEN df_to_serializable(spec.default)
              ELSE IF spec.type = "series" /\ spec.default.kind = "Series"
              THEN series_to_list(spec.default)
              ELSE spec.default]

\* lines 46-73: WeatherConfig.__init__; a dict without an index gets one of
\* the length of its columns
WeatherConfig(value) ==
  IF value.kind = "DataFrame" THEN value
  ELSE IF value.kind = "dict" /\ value.v # << >>
  THEN Value("DataFrame", value.v, Len(value.v))
  ELSE ATTRIBUTE_SPECS["weather"].default

\* lines 98-108: BooleanConfig.__init__, bool(v)
BooleanConfig(value) ==
  [k \in get_spec_keys_by_category("boolean") |->
     IF k \in DOMAIN value
     THEN Value("bool", <<IF value[k].v = << >> \/ value[k].v = <<Zero>> THEN Zero ELSE R(1)>>, 0)
     ELSE Value("bool", ATTRIBUTE_SPECS[k].default.v, 0)]

\* lines 141-157: one provided value of FixedConfig.__init__
FixedValue(spec, v, weather_index) ==
  IF spec.type = "series" /\ v.kind = "list" /\ Len(v.v) = weather_index
  THEN Value("Series", v.v, weather_index)
  ELSE IF v.kind = "Series"
  THEN Value("Series", Force([t \in 1..weather_index |->
                                 IF t <= Len(v.v) THEN v.v[t] ELSE NaN]), weather_index)
  ELSE v

\* lines 130-157: FixedConfig.__init__
FixedConfig(value, weather_index) ==
  [k \in get_spec_keys_by_category("fixed") \cup DOMAIN value |->
     IF k \notin DOMAIN value THEN ATTRIBUTE_SPECS[k].default
     ELSE IF k \notin get_spec_keys_by_category("fixed") THEN value[k]
     ELSE FixedValue(ATTRIBUTE_SPECS[k], value[k], weather_index)]

\* the keys of d that are in keys
Restrict(d, keys) == [k \in DOMAIN d \cap keys |-> d[k]]

\* lines 214-246: CfgBuilding.__init__
CfgBuilding(json_input) ==
  LET parsed_filled  == ensure_and_normalize_input(json_input)
      booleans_input == Restrict(parsed_filled, get_spec_keys_by_category("boolean"))
      fixed_input    == Restrict(parsed_filled, get_spec_keys_by_category("fixed"))
      weather        == WeatherConfig(parsed_filled["weather"])
  IN  [ parsed_filled |-> parsed_filled,
        weather  |-> weather,
        booleans |-> BooleanConfig(booleans_input),
        fixed    |-> FixedConfig(fixed_input, weather.index) ]

\* lines 274-297: _build_internal_cfg
build_internal_cfg(b) ==
  LET others == {name \in DOMAIN ATTRIBUTE_SPECS :
                   ATTRIBUTE_SPECS[name].category \notin {"weather", "boolean", "fixed"}}
  IN  [name \in others |-> b.parsed_filled[name]]
      @@ b.fixed @@ b.booleans @@ ("weather" :> b.weather)

\* lines 299-331: to_cfg_dict; A_ref is derived only when the key is absent
to_cfg_dict(b) == build_internal_cfg(b)

\* lines 333-358: to_json
to_json(b) ==
  LET c == build_internal_cfg(b)
  IN  [k \in DOMAIN c |->
         IF c[k].kind = "Series" THEN series_to_list(c[k])
         ELSE IF c[k].kind = "DataFrame" THEN df_to_serializable(c[k])
         ELSE c[k]]

\* the inputs: every key given or left out; the weather as a dict of two
\* hours, the load as a list of two or three values, and two keys that are
\* no attribute
InputValues ==
  ("weather" :> {Value("dict", <<R(5), R(6)>>, 0)})
  @@ ("elecLoad" :> {Value("list", <<R(1), R(2)>>, 0), Value("list", <<R(1), R(2), R(3)>>, 0)})
  @@ ("A_ref" :> {Value("float", <<R(100)>>, 0)})
  @@ ("ventControl" :> {Value("float", <<R(1)>>, 0)})
  @@ ("components" :> {Value("dict", <<R(1)>>, 0)})
  @@ ("c_m" :> {Value("float", <<R(165)>>, 0)})
  @@ ("U_Wall_1" :> {Value("float", <<R(2)>>, 0)})

InputKeys == <<"weather", "elecLoad", "A_ref", "ventControl", "components", "c_m", "U_Wall_1">>

RECURSIVE InputsOver(_)
InputsOver(i) ==
  IF i = 0 THEN {<< >>}
  ELSE LET rest == InputsOver(i - 1)
       IN  rest \cup {(InputKeys[i] :> v) @@ d : v \in InputValues[InputKeys[i]], d \in rest}

Inputs == InputsOver(Len(InputKeys))

BuildInit ==
  /\ cfg \in Inputs
  /\ model = None
  /\ call = NoCall
  /\ result = None

\* CfgBuilding(payload).to_cfg_dict()
ToCfgDict ==
  /\ model' = Some(CfgBuilding(cfg))
  /\ result' = Some(to_cfg_dict(CfgBuilding(cfg)))
  /\ call' = [NoCall EXCEPT !.op = "to_cfg_dict"]
  /\ UNCHANGED cfg

\* CfgBuilding(payload).to_json()
ToJson ==
  /\ model' = Some(CfgBuilding(cfg))
  /\ result' = Some(to_json(CfgBuilding(cfg)))
  /\ call' = [NoCall EXCEPT !.op = "to_json"]
  /\ UNCHANGED cfg

BuildNext == ToCfgDict \/ ToJson

BuildSpec == BuildInit /\ [][BuildNext]_vars

\* C26: every input key that is no name of ATTRIBUTE_SPECS appears with
\* its input value in to_cfg_dict() and in to_json(), and every name of
\* ATTRIBUTE_SPECS missing from the input appears with the values of its
\* default.
C26_KeysPreserved ==
  call.op \in {"to_cfg_dict", "to_json"} =>
    /\ \A k \in DOMAIN cfg \ DOMAIN ATTRIBUTE_SPECS :
         k \in DOMAIN result[1] /\ result[1][k] = cfg[k]
    /\ \A name \in DOMAIN ATTRIBUTE_SPECS \ DOMAIN cfg :
         name \in DOMAIN result[1] /\ result[1][name].v = ATTRIBUTE_SPECS[name].default.v


\* ------------------------------------------------------------------------
\* ModelBUEM.scaleHeatLoad  (model_buem.py lines 475-490)
\*
\* In this specification the instance carries _orig_U_Values (None until
\* the first call) and result holds the scale of the last call.
\* ------------------------------------------------------------------------
\* str(key).startswith("U_"), over the keys the dicts here hold
StartsWithU(key) ==
  key \in LegacyUKeys \cup {LegacyKeys[k] : k \in 1..Len(LegacyKeys)}

\* lines 480-487: the originals saved by the first call
OrigUValues(c) ==
  [key \in {k \in DOMAIN c.flat : StartsWithU(k)} |-> c.flat[key]]
  @@ ("n_air_infiltration" :> DictGet(c.flat, "n_air_infiltration", Zero))
  @@ ("n_air_use" :> DictGet(c.flat, "n_air_use", Zero))

\* lines 489-490: cfg[key] = val * scale
ScaledFlat(flat, orig, scale) ==
  [key \in DOMAIN orig |-> RMul(orig[key], scale)] @@ flat

Scales == {Frac(1, 2), R(2), R(3)}

\* a tree with component-level U, the same tree whose Walls take their U
\* from the flat key U_Walls, and dicts without a tree; all with air change
TreeWithFlatU ==
  LET b == Building(1, TRUE, TRUE, 2, 10)
  IN  [b EXCEPT !.components = Some([b.components[1] EXCEPT !["Walls"].U = None]),
                !.flat = ("U_Walls" :> R(2000)) @@ @]

WithAirChange(c, n_inf) ==
  [c EXCEPT !.flat = ("n_air_infiltration" :> n_inf) @@ ("n_air_use" :> Frac(1, 2)) @@ @]

ScaleConfigs ==
  { WithAirChange(c, n_inf) :
      c \in { Building(1, TRUE, TRUE, 2, 10), TreeWithFlatU,
              LegacyCfg({LegacyKeys[k] : k \in 1..5}, LegacyUKeys, {"A_Walls_1", "A_Roof_1"}),
              LegacyCfg({LegacyKeys[k] : k \in 1..5}, LegacyUKeys \ {"U_Walls"}, {"A_Walls_1"}) },
      n_inf \in {Zero, Frac(1, 2)} }

ScaleInit ==
  /\ cfg \in ScaleConfigs
  /\ model = NewModel(cfg) @@ [orig_U_Values |-> None]
  /\ call = NoCall
  /\ result = None

\* self.scaleHeatLoad(scale)
ScaleHeatLoad ==
  \E scale \in Scales :
    LET orig == IF model.orig_U_Values = None THEN OrigUValues(cfg)
                ELSE model.orig_U_Values[1]
    IN  /\ model' = [model EXCEPT !.orig_U_Values = Some(orig)]
        /\ cfg' = [cfg EXCEPT !.flat = ScaledFlat(cfg.flat, orig, scale)]
        /\ call' = [NoCall EXCEPT !.op = "scaleHeatLoad"]
        /\ result' = Some(scale)

\* lines 128-203: _initEnvelop on either kind of dict
initEnvelopOf(c) ==
  IF c.components # None /\ DOMAIN c.components[1] # {}
  THEN [exc |-> ""] @@ initEnvelop(c)
  ELSE initEnvelopLegacy(c)

\* self._initEnvelop() again
Reparse ==
  LET env == initEnvelopOf(cfg)
  IN  /\ model' = [model EXCEPT !.component_elements = env.component_elements,
                                !.bU = env.bU, !.bH = env.bH, !.windows = env.windows]
      /\ call' = [NoCall EXCEPT !.op = "_initEnvelop", !.exc = env.exc]
      /\ UNCHANGED <<cfg, result>>

ScaleNext == ScaleHeatLoad \/ Reparse

ScaleSpec == ScaleInit /\ [][ScaleNext]_vars

\* the dict as it was before the first call of scaleHeatLoad
Unscaled(m, c) == [c EXCEPT !.flat = m.orig_U_Values[1] @@ @]

\* C27: after any calls of scaleHeatLoad, the last with scale sk, and a
\* re-parse of the envelope that completes, every aggregate conductance
\* (each component and Ventilation) is sk times its unscaled value.
C27_ScaledConductances ==
  (call.op = "_initEnvelop" /\ call.exc = "" /\ model.orig_U_Values # None) =>
    \A comp \in DOMAIN model.bH :
      model.bH[comp] = RMul(result[1], initEnvelopOf(Unscaled(model, cfg)).bH[comp])


\* ------------------------------------------------------------------------
\* ModelBUEM._addPara  (model_buem.py lines 414-449)
\*
\* In this specification the instance carries attrs, the attributes
\* _addPara and the constructor set by name: a name outside DOMAIN attrs
\* is an attribute the object does not have.  call.maxLoad is self.maxLoad
\* as the call found it.
\* ------------------------------------------------------------------------
\* weather["T"].min(), weather["T"].max()
SeriesMin(q) == LET values == {q[t] : t \in 1..Len(q)}
                IN  CHOOSE x \in values : \A y \in values : RLe(x, y)
SeriesMax(q) == LET values == {q[t] : t \in 1..Len(q)}
                IN  CHOOSE x \in values : \A y \in values : RLe(y, x)

\* lines 438-449: the big-M bounds of the aggregated heat flows
BigM(m, c) ==
  [comp \in DOMAIN m.bH |->
     RMul(RSub(m.bT_comf_ub, RSub(SeriesMin(c.weather[1].T), R(10))), m.bH[comp])]
SmallM(m, c) ==
  [comp \in DOMAIN m.bH |->
     RMul(RSub(m.bT_comf_lb, RAdd(SeriesMax(c.weather[1].T), R(10))), m.bH[comp])]

\* lines 431-434: the profile references
ProfileRefs(m, c) ==
  [name \in {"bQ_ig", "occ_nothome", "occ_sleeping"} |->
     DictGet(c.series, IF name = "bQ_ig" THEN "Q_ig" ELSE name, SeriesZero(m.times))]
  @@ m.profiles

\* lines 424-429: the sizing.  Without maxLoad the load is assigned to
\* BMaxLoad and the next line reads bMaxLoad, which no line has set
Sizing(m, c) ==
  IF m.attrs["maxLoad"] = None
  THEN LET sized == ("BMaxLoad" :> Some(calcDesignHeatLoad(m, c))) @@ m.attrs
       IN  IF "bMaxLoad" \in DOMAIN sized
           THEN [exc |-> "", attrs |-> ("maxLoad" :> sized["bMaxLoad"]) @@ sized]
           ELSE [exc |-> "AttributeError", attrs |-> sized]
  ELSE [exc |-> "", attrs |-> ("bMaxLoad" :> m.attrs["maxLoad"]) @@ m.attrs]

\* the instance after _addPara, given what _initEnvelop and _init5R1C left
AfterInit(m, c, exc) ==
  IF exc # "" THEN [exc |-> exc, m |-> m]
  ELSE LET sized == Sizing(m, c)
       IN  IF sized.exc # "" THEN [exc |-> sized.exc, m |-> [m EXCEPT !.attrs = sized.attrs]]
           ELSE [exc |-> "",
                 m |-> [m EXCEPT !.profiles = ProfileRefs(m, c),
                                 !.attrs = ("bM_q" :> BigM(m, c)) @@ ("bm_q" :> SmallM(m, c))
                                           @@ sized.attrs]]

addPara(m, c) ==
  AfterInit(SimInit(m, c).m, SimInit(m, c).cfg, SimInit(m, c).exc)

MaxLoads == {None, Some(Zero), Some(R(5))}

ParaInit ==
  /\ cfg \in Envelopes({FALSE})
  /\ \E maxLoad \in MaxLoads :
       model = NewModel(cfg) @@ [attrs |-> ("maxLoad" :> maxLoad)]
  /\ call = NoCall @@ [maxLoad |-> None]
  /\ result = None

\* self._addPara()
AddPara ==
  /\ model' = addPara(model, cfg).m
  /\ cfg' = SimInit(model, cfg).cfg
  /\ call' = [NoCall EXCEPT !.op = "_addPara", !.exc = addPara(model, cfg).exc]
             @@ [maxLoad |-> model.attrs["maxLoad"]]
  /\ UNCHANGED result

\* self.calcDesignHeatLoad(), which parses the envelope when bH is empty
CalcDesignHeatLoad ==
  /\ result' = Some(calcDesignHeatLoad(model, cfg))
  /\ model' = IF model.bH = << >>
              THEN [model EXCEPT !.component_elements = initEnvelop(cfg).component_elements,
                                 !.bU = initEnvelop(cfg).bU, !.bH = initEnvelop(cfg).bH,
                                 !.windows = initEnvelop(cfg).windows]
              ELSE model
  /\ call' = [NoCall EXCEPT !.op = "calcDesignHeatLoad"] @@ [maxLoad |-> model.attrs["maxLoad"]]
  /\ UNCHANGED cfg

ParaNext == AddPara \/ CalcDesignHeatLoad

ParaSpec == ParaInit /\ [][ParaNext]_vars

\* C28: _addPara completes; on an instance constructed without maxLoad it
\* sets both maxLoad and bMaxLoad to the design heat load
\* calcDesignHeatLoad(), and on one constructed with maxLoad it sets
\* bMaxLoad to that value.
C28_Sizing ==
  call.op = "_addPara" =>
    /\ call.exc = ""
    /\ "bMaxLoad" \in DOMAIN model.attrs
    /\ IF call.maxLoad = None
       THEN /\ model.attrs["maxLoad"] = Some(calcDesignHeatLoad(model, cfg))
            /\ model.attrs["bMaxLoad"] = Some(calcDesignHeatLoad(model, cfg))
       ELSE model.attrs["bMaxLoad"] = call.maxLoad


\* ------------------------------------------------------------------------
\* Components whose elements carry the U, under EnvSpec
\* ------------------------------------------------------------------------
\* the sum over the elements of U_e * area_e * b / 1000
ElementConductance(comp_data) ==
  RSumSeq(Force([k \in 1..Len(comp_data.elements) |->
            Conductance(comp_data.elements[k].U[1], comp_data.elements[k].area[1],
                        Get(comp_data.b_transmission, R(1)))]))

\* no component-level U, and every element supplies a positive U
PerElementU(comp_data) ==
  /\ comp_data.U = None
  /\ comp_data.elements # << >>
  /\ \A k \in 1..Len(comp_data.elements) :
       /\ comp_data.elements[k].U # None
       /\ RLt(Zero, comp_data.elements[k].U[1])

\* C29: for a component of a validated tree that has no component-level U
\* and whose every element supplies its own positive U, _initEnvelop sets
\* the aggregate conductance to the sum over the elements of
\* U_e * area_e * b / 1000, which is positive.
C29_PerElementConductance ==
  (call.op = "_initEnvelop" /\ validate_cfg(cfg) = << >>) =>
    \A comp \in DOMAIN cfg.components[1] :
      PerElementU(cfg.components[1][comp]) =>
        /\ model.bH[comp] = ElementConductance(cfg.components[1][comp])
        /\ RLt(Zero, model.bH[comp])


\* ------------------------------------------------------------------------
\* GeoJsonProcessor.process  (integration/geojson_processor.py lines 71-158)
\*
\* In this specification cfg is the validated feature list.  A feature is
\* its id, the dict its building attributes convert to, its use_milp flag
\* and the two entries the processor writes under properties.buem.
\* ------------------------------------------------------------------------
Feature(id, c, use_milp) ==
  [id |-> id, cfg |-> c, use_milp |-> use_milp,
   error |-> None, thermal_load_profile |-> None]

\* lines 160-245: _process_single_feature; the outcomes are run_model's, and
\* a failing attribute build raises the same ValueError as run_model's
\* validation
process_single_feature(feature) == run_model(feature.cfg, feature.use_milp)

\* lines 119-135, an except branch that records the error and drops the
\* feature
AfterFeatureDropped(acc, feat, i, o) ==
  IF o.exc = ""
  THEN [acc EXCEPT !.out_features =
          Append(@, [feat EXCEPT !.thermal_load_profile =
                       Some([heating |-> o.heating, cooling |-> o.cooling])])]
  ELSE [acc EXCEPT !.processing_errors = Append(@, <<feat.id, o.exc>>)]

\* lines 119-135: the body of the loop, given how the feature ended
AfterFeature(acc, feat, i, o) ==
  IF o.exc = ""
  THEN [acc EXCEPT !.out_features =
          Append(@, [feat EXCEPT !.thermal_load_profile =
                       Some([heating |-> o.heating, cooling |-> o.cooling])])]
  ELSE [acc EXCEPT !.processing_errors = Append(@, <<feat.id, o.exc>>),
                   !.out_features =
          Append(@, [feat EXCEPT !.error =
                       Some([type |-> "processing_error", message |-> o.exc,
                             feature_id |-> feat.id])])]

\* lines 115-135: the loop over the features
RECURSIVE FeatureLoop(_, _, _)
FeatureLoop(features, i, acc) ==
  IF i > Len(features) THEN {acc}
  ELSE UNION { FeatureLoop(features, i + 1, AfterFeature(acc, features[i], i, o))
               : o \in process_single_feature(features[i]) }

\* lines 137-158: the response
GeoResponse(features, acc) ==
  [ type |-> "FeatureCollection",
    features |-> acc.out_features,
    metadata |-> [ total_features |-> Len(features),
                   successful_features |-> Len(features) - Len(acc.processing_errors),
                   failed_features |-> Len(acc.processing_errors) ],
    processing_errors |-> acc.processing_errors ]

process(features) ==
  { GeoResponse(features, acc)
    : acc \in FeatureLoop(features, 1, [out_features |-> << >>, processing_errors |-> << >>]) }

\* the longest feature list
MaxFeatures == 3

\* the features: a valid building run either way, a building in hot
\* weather, and a building whose tree lacks the Doors component
FeatureKinds ==
  { Feature("b1", Building(1, TRUE, TRUE, 2, 10), FALSE),
    Feature("b2", Building(1, TRUE, TRUE, 2, 10), TRUE),
    Feature("b3", Building(1, FALSE, TRUE, 2, 40), FALSE),
    Feature("b4", Building(1, TRUE, FALSE, 2, 10), FALSE) }

FeatureListsOf(len) ==
  { Force(f) : f \in [1..len -> FeatureKinds] }

GeoInit ==
  /\ cfg \in UNION { FeatureListsOf(len) : len \in 1..MaxFeatures }
  /\ model = None
  /\ call = NoCall
  /\ result = None

\* GeoJsonProcessor(payload).process()
Process ==
  \E r \in process(cfg) :
    /\ result' = Some(r)
    /\ call' = [NoCall EXCEPT !.op = "process"]
    /\ UNCHANGED <<cfg, model>>

GeoNext == Process

GeoSpec == GeoInit /\ [][GeoNext]_vars

\* the feature can end with this exception
CanRaise(feature, exc) ==
  \E o \in process_single_feature(feature) : o.exc = exc /\ exc # ""

\* the positions of the output features that carry an error record
ErrorPositions(features) == {i \in 1..Len(features) : features[i].error # None}

\* C30: process returns exactly one output feature per input feature, in
\* input order; an output feature carries an error record exactly when the
\* processing of its input raised, with the message of that exception, and
\* a profile otherwise, whatever happened to the features before it; and
\* the metadata satisfies successful_features + failed_features =
\* total_features, with failed_features the number of output features
\* carrying an error record.
C30_OneOutputPerFeature ==
  call.op = "process" =>
    LET r == result[1]
    IN  /\ Len(r.features) = Len(cfg)
        /\ \A i \in 1..Len(cfg) :
             /\ r.features[i].id = cfg[i].id
             /\ r.features[i].cfg = cfg[i].cfg
             /\ IF r.features[i].error # None
                THEN /\ CanRaise(cfg[i], r.features[i].error[1].message)
                     /\ r.features[i].thermal_load_profile = None
                ELSE /\ \E o \in process_single_feature(cfg[i]) : o.exc = ""
                     /\ r.features[i].thermal_load_profile # None
        /\ r.metadata.total_features = Len(cfg)
        /\ r.metadata.successful_features + r.metadata.failed_features
             = r.metadata.total_features
        /\ r.metadata.failed_features = Cardinality(ErrorPositions(r.features))

\* a list of three features whose first raised the configuration error and
\* whose later ones were processed, the second ending in another error
C30_Witness ==
  /\ call.op = "process"
  /\ Len(cfg) = MaxFeatures
  /\ result[1].features[1].error # None
  /\ result[1].features[1].error[1].message = "ValueError"
  /\ result[1].features[2].error # None
  /\ result[1].features[2].error[1].message # "ValueError"
  /\ result[1].features[3].id = cfg[3].id
  /\ result[1].metadata.failed_features >= 2

====
